---- MODULE Spec2Model ----
(***************************************************************************)
(* OneTrueAddress: the address reconciliation pipeline of AddressAgent     *)
(* (src/address_agent.py).  One invocation of match_address is modelled    *)
(* as a state machine: retrieval, the total_matches == 0 short circuit,    *)
(* merge-sort and truncation, the single request to the reasoning model,   *)
(* the recovery of its verdict, analysis attachment and result assembly.   *)
(* _parse_claude_response is modelled separately over token strings.       *)
(***************************************************************************)
EXTENDS Integers, Sequences, FiniteSets, TLC

VARIABLES
    pc,                     \* position of match_address
    golden_source_matches,  \* match_results['golden_source_matches']
    internal_matches,       \* match_results['internal_matches']
    total_matches,          \* match_results['total_matches']
    all_matches,            \* the merged, sorted list of match_address
    args,                   \* the arguments _review_fuzzy_matches_with_claude is called with
    requests,               \* calls of claude_client.client.messages.create so far
    call_outcome,           \* what the reasoning-model call did: none, exception or reply
    parsed_response,        \* what _parse_claude_response returned to the adjudicator
    claude_review,          \* the verdict _review_fuzzy_matches_with_claude returned
    ai_analysis,            \* the _ai_analysis key of each candidate record
    result,                 \* the dictionary match_address returned
    response_text,          \* the text handed to _parse_claude_response
    parse_result,           \* the value _parse_claude_response returned for response_text
    golden_address,         \* the golden record handed to the verifier or the retriever
    exact_match,            \* the dictionary _check_exact_match returned
    columns,                \* the columns of the secondary table, in declaration order
    golden_columns,         \* the columns the primary table has
    search_criteria,        \* the criteria handed to get_filtered_addresses
    column_mapping,         \* the mapping _get_pinellas_column_mapping returned
    street,                 \* street_number, street_name_full, street_name_core
    queries,                \* the statements cursor.execute was called with, in order
    returned,               \* what the retrieval method returned, or that it raised
    cursor,                 \* the cursor of the retrieval method: none, open or closed
    printed,                \* the lines main has printed after match_address
    exit_status,            \* the exit status of the process, once it has terminated
    agent_closed            \* agent.close() was called

vars == <<pc, golden_source_matches, internal_matches, total_matches, all_matches,
          args, requests, call_outcome, parsed_response, claude_review,
          ai_analysis, result, response_text, parse_result, golden_address,
          exact_match, columns, golden_columns, search_criteria, column_mapping,
          street, queries, returned, cursor, printed, exit_status, agent_closed>>

pipeline_vars == <<golden_source_matches, internal_matches, total_matches, all_matches,
                   args, requests, call_outcome, parsed_response, claude_review,
                   ai_analysis, result>>

parser_vars == <<response_text, parse_result>>

verifier_vars == <<golden_address, exact_match>>

retriever_vars == <<columns, golden_columns, search_criteria, column_mapping, street,
                    queries, returned, cursor>>

main_vars == <<printed, exit_status, agent_closed>>

----------------------------------------------------------------------------
(* Bounds of the model and constants of the program.                       *)

\* longest candidate list a source returns in the short-list specification
MaxLen == 2
\* candidates a source returns beyond TopN in the long-list specification
MaxExtra == 1
\* longest arbitrary token string handed to the parser
MaxText == 4
\* longest list of internal records handed to the verifier
MaxRecords == 2
\* most words an address line has after its leading token
MaxWords == 3
\* most rows a row-selecting statement fetches
MaxRows == 1

\* all_matches[:10], golden_source_matches[:10], internal_matches[:10]
TopN == 10
\* config.FUZZY_MATCH_THRESHOLD
FUZZY_MATCH_THRESHOLD == 90

\* _similarity_score values the retriever tags rows with
Scores == {80, 95}

GOLDEN == "golden_source"
INTERNAL == "internal"

\* a key a dictionary does not have / JSON null / a JSON string where another type is expected
Missing == "MISSING"
Null == "NULL"
Str == "STR"

----------------------------------------------------------------------------
(* Sequences.                                                              *)

Take(s, n) == SubSeq(s, 1, IF Len(s) < n THEN Len(s) ELSE n)

Reverse(s) == [i \in 1..Len(s) |-> s[Len(s) + 1 - i]]

Range(s) == {s[i] : i \in 1..Len(s)}

----------------------------------------------------------------------------
(* Character strings and dictionaries.  A Python str is a sequence of       *)
(* one-character strings; a dict is the sequence of its (key, value) pairs   *)
(* in insertion order.                                                       *)

\* str.lower() on one character
ToLower ==
    LET upper == <<"A", "B", "C", "D", "E", "F", "G", "H", "I", "J", "K", "L", "M">> \o <<"N", "O", "P", "Q", "R", "S", "T", "U", "V", "W", "X", "Y", "Z">>
        lower == <<"a", "b", "c", "d", "e", "f", "g", "h", "i", "j", "k", "l", "m">> \o <<"n", "o", "p", "q", "r", "s", "t", "u", "v", "w", "x", "y", "z">>
    IN [c \in {upper[i] : i \in 1..Len(upper)} |->
           lower[CHOOSE i \in 1..Len(upper) : upper[i] = c]]

LowerChar(c) == IF c \in DOMAIN ToLower THEN ToLower[c] ELSE c

\* str.lower()
Lower(s) == [i \in 1..Len(s) |-> LowerChar(s[i])]

\* the characters str.strip() and str.split() treat as whitespace
Whitespace == {" ", "\t", "\n"}

RECURSIVE LStrip(_)
LStrip(s) == IF s # <<>> /\ Head(s) \in Whitespace THEN LStrip(Tail(s)) ELSE s

\* str.strip()
StripSpace(s) == Reverse(LStrip(Reverse(LStrip(s))))

\* pat in s
Contains(pat, s) ==
    \E i \in 0..(Len(s) - Len(pat)) : SubSeq(s, i + 1, i + Len(pat)) = pat

\* the values a record holds: a string, None, or no value because the key is absent
StrValue(s) == [t |-> "str", s |-> s]
NoneValue == [t |-> "none", s |-> <<>>]
Absent == [t |-> "absent", s |-> <<>>]

\* str(d.get(key, '')): str(None) is 'None', the default of an absent key is ''
PyStr(v) == IF v.t = "none" THEN <<"N", "o", "n", "e">> ELSE v.s

\* a column name that is None
NoColumn == <<>>

\* d.get(key): a dict is the sequence of its (key, value) pairs
Get(d, key) ==
    IF \E i \in 1..Len(d) : d[i][1] = key
    THEN d[CHOOSE i \in 1..Len(d) : d[i][1] = key][2]
    ELSE Absent

----------------------------------------------------------------------------
(* Candidate records.  A record is identified by its source and its        *)
(* position in the list the retriever returned, and carries the            *)
(* _similarity_score the retriever tagged it with.                         *)

Candidate(src, pos, score) == [src |-> src, pos |-> pos, score |-> score]

\* the empty dictionary {} (recommended_match when there is no candidate at all)
EmptyRecord == [src |-> "none", pos |-> 0, score |-> 0]

\* x.get('_similarity_score', 0)
SimilarityScore(x) == x.score

\* the rows of one source, in the order returned, from their scores
Rows(src, scores) == [i \in 1..Len(scores) |-> Candidate(src, i, scores[i])]

\* every list of at most n scores
ScoreSeqs(n) == UNION {[1..k -> Scores] : k \in 0..n}

\* lengths of the long lists: none, or around the truncation point TopN
LongLens == {0} \cup ((TopN - 1)..(TopN + MaxExtra))

\* long lists of scores: a run of one score followed by a run of another
LongScoreSeqs ==
    {[i \in 1..k |-> IF i <= c THEN a ELSE b] :
        k \in LongLens, c \in 0..(TopN + MaxExtra), a \in Scores, b \in Scores}

----------------------------------------------------------------------------
(* all_matches.sort(key=score, reverse=True): CPython reverses the list,   *)
(* sorts it stably in ascending key order (binary insertion for short      *)
(* lists), and reverses it again.                                          *)

RECURSIVE InsertAsc(_, _)
InsertAsc(sorted, x) ==
    IF sorted = <<>> THEN <<x>>
    ELSE IF SimilarityScore(x) < SimilarityScore(Head(sorted)) THEN <<x>> \o sorted
    ELSE <<Head(sorted)>> \o InsertAsc(Tail(sorted), x)

RECURSIVE StableSortAsc(_)
StableSortAsc(l) ==
    IF l = <<>> THEN <<>>
    ELSE InsertAsc(StableSortAsc(SubSeq(l, 1, Len(l) - 1)), l[Len(l)])

\* a descending sort that reverses only once: candidates of equal score swap places
SortByScoreDescTiesReversed(l) == Reverse(StableSortAsc(l))

\* the merged list left in concatenation order
SortByScoreDescOmitted(l) == l

SortByScoreDesc(l) == Reverse(StableSortAsc(Reverse(l)))

\* all_matches = golden_source_matches + internal_matches; all_matches.sort(...)
MergeMatches(gs, int) == SortByScoreDesc(gs \o int)

----------------------------------------------------------------------------
(* Values of the verdict's fields.  A field is a tagged value: an integer, *)
(* or missing from the dictionary, JSON null, or a JSON string.            *)

IntVal(n) == [t |-> "int", n |-> n]
MissingVal == [t |-> "missing", n |-> 0]
NullVal == [t |-> "null", n |-> 0]
StrVal == [t |-> "str", n |-> 0]

\* an analyses mapping: missing, null, or a dictionary given as its items in order
NoAnalyses == [t |-> "missing", items |-> <<>>]
NullAnalyses == [t |-> "null", items |-> <<>>]
DictAnalyses(items) == [t |-> "dict", items |-> items]
\* a key of an analyses dictionary: ok when int(key) succeeds, with n its value
Item(ok, n, val) == [ok |-> ok, n |-> n, val |-> val]

\* no _ai_analysis key on the record
NoAnalysis == "none"

ParsedDict(raw, mf, src, idx, conf, reasoning, gsa, inta) ==
    [isdict |-> TRUE, raw |-> raw, match_found |-> mf, best_match_source |-> src,
     best_match_index |-> idx, confidence |-> conf, reasoning |-> reasoning,
     golden_source_analyses |-> gsa, internal_analyses |-> inta]

\* {"raw_text": response_text, "note": ...}: a dictionary with none of the verdict's keys
RawSentinel ==
    ParsedDict(TRUE, Missing, Missing, MissingVal, MissingVal, Missing, NoAnalyses, NoAnalyses)

\* json.loads returned a list, a number or a string
NonDict ==
    [isdict |-> FALSE, raw |-> FALSE, match_found |-> Missing, best_match_source |-> Missing,
     best_match_index |-> MissingVal, confidence |-> MissingVal, reasoning |-> Missing,
     golden_source_analyses |-> NoAnalyses, internal_analyses |-> NoAnalyses]

\* nothing was parsed (yet)
NoResponse ==
    [isdict |-> FALSE, raw |-> FALSE, match_found |-> "none", best_match_source |-> "none",
     best_match_index |-> MissingVal, confidence |-> MissingVal, reasoning |-> "none",
     golden_source_analyses |-> NoAnalyses, internal_analyses |-> NoAnalyses]

MatchFoundVals == {"true", "false", Missing, Null, Str}
SourceVals == {GOLDEN, INTERNAL, "other", Missing, Null}
IndexVals == {IntVal(n) : n \in ((-1)..(MaxLen + 1)) \cup {5}} \cup {MissingVal, NullVal, StrVal}
ConfidenceVals ==
    {IntVal(50), IntVal(FUZZY_MATCH_THRESHOLD), IntVal(99), MissingVal, NullVal, StrVal}

\* verdicts whose pointer, match_found and confidence vary
CoreVerdicts ==
    {ParsedDict(FALSE, mf, src, idx, conf, Missing, NoAnalyses, NoAnalyses) :
        mf \in MatchFoundVals, src \in SourceVals, idx \in IndexVals, conf \in ConfidenceVals}

AnalysesVals ==
    {NoAnalyses, NullAnalyses, DictAnalyses(<<>>),
     DictAnalyses(<<Item(TRUE, 1, "A1")>>),
     DictAnalyses(<<Item(TRUE, 2, "A2"), Item(TRUE, 1, "A1")>>),
     DictAnalyses(<<Item(FALSE, 0, "A1"), Item(TRUE, 1, "A2")>>),
     DictAnalyses(<<Item(FALSE, 0, Str)>>),
     DictAnalyses(<<Item(TRUE, 1, Str)>>),
     DictAnalyses(<<Item(TRUE, 0, "A1"), Item(TRUE, TopN + 1, "A2")>>),
     DictAnalyses(<<Item(TRUE, 1, "A1"), Item(TRUE, 1, "A2")>>)}

\* verdicts whose per-candidate analyses and reasoning vary
AnalysesVerdicts ==
    {ParsedDict(FALSE, mf, GOLDEN, IntVal(1), IntVal(99), r, gsa, inta) :
        mf \in {"true", "false"}, r \in {Missing, "verdict reasoning"},
        gsa \in AnalysesVals, inta \in AnalysesVals}

Verdicts == CoreVerdicts \cup AnalysesVerdicts \cup {RawSentinel, NonDict}

\* verdicts pointing around the truncation point
LongVerdicts ==
    {ParsedDict(FALSE, "true", src, IntVal(n), IntVal(99), Missing, NoAnalyses, NoAnalyses) :
        src \in {GOLDEN, INTERNAL}, n \in {1, TopN, TopN + 1}}
    \cup {ParsedDict(FALSE, "false", GOLDEN, IntVal(1), IntVal(99), Missing,
                     DictAnalyses(<<Item(TRUE, TopN, "A1"), Item(TRUE, TopN + 1, "A2")>>),
                     NoAnalyses),
          RawSentinel}

\* errors of claude_client.client.messages.create
CallErrors == {"APIConnectionError", "APIStatusError"}

----------------------------------------------------------------------------
(* _review_fuzzy_matches_with_claude.                                      *)

\* the dictionary the adjudicator returns
Verdict(mf, bm, conf, reasoning, analyses) ==
    [match_found |-> mf, best_match |-> bm, confidence |-> conf,
     reasoning |-> reasoning, match_analyses |-> analyses]

NoVerdict == Verdict("none", EmptyRecord, MissingVal, <<>>, <<>>)

\* the empty converted_analyses dictionary
NoMatchAnalyses == <<>>

ReviewedReasoning == <<"Claude reviewed the matches">>
UnavailableReasoning == <<"Using fuzzy match result (Claude review unavailable)">>
FailedReasoning(e) == <<"Using fuzzy match result (Claude review failed: ", e, ")">>

\* the fall-back verdict of the else branch and of the except clause
FuzzyVerdict(a, reasoning) ==
    Verdict("true", a.all_matches[1], IntVal(SimilarityScore(a.all_matches[1])),
            reasoning, NoMatchAnalyses)

\* a fall-back that takes the first golden-source candidate when there is one
RecommendedMatchGoldenFirst(src, idx, a) ==
    IF src = GOLDEN /\ 0 <= idx /\ idx < Len(a.golden_source_matches)
        THEN a.golden_source_matches[idx + 1]
    ELSE IF src = INTERNAL /\ 0 <= idx /\ idx < Len(a.internal_matches)
        THEN a.internal_matches[idx + 1]
    ELSE IF Len(a.golden_source_matches) > 0 THEN a.golden_source_matches[1]
    ELSE IF Len(a.all_matches) > 0 THEN a.all_matches[1]
    ELSE EmptyRecord

\* a recommendation without the fall-back to the top merged candidate
RecommendedMatchNoFallback(src, idx, a) ==
    IF src = GOLDEN /\ 0 <= idx /\ idx < Len(a.golden_source_matches)
        THEN a.golden_source_matches[idx + 1]
    ELSE IF src = INTERNAL /\ 0 <= idx /\ idx < Len(a.internal_matches)
        THEN a.internal_matches[idx + 1]
    ELSE EmptyRecord

\* recommended_match, from the source and the 0-based index of the verdict
RecommendedMatch(src, idx, a) ==
    IF src = GOLDEN /\ 0 <= idx /\ idx < Len(a.golden_source_matches)
        THEN a.golden_source_matches[idx + 1]
    ELSE IF src = INTERNAL /\ 0 <= idx /\ idx < Len(a.internal_matches)
        THEN a.internal_matches[idx + 1]
    ELSE IF Len(a.all_matches) > 0 THEN a.all_matches[1]
    ELSE EmptyRecord

\* converted_analyses[f"{prefix}_{idx}"] = analysis, for the items whose key int() accepts;
\* the dictionary is kept as the sequence of its entries, a later entry replacing an
\* earlier one of the same key
RECURSIVE ConvertAnalyses(_, _, _)
ConvertAnalyses(prefix, items, acc) ==
    IF items = <<>> THEN acc
    ELSE LET it == Head(items)
             entry == [prefix |-> prefix, idx |-> it.n - 1, val |-> it.val]
             kept == SelectSeq(acc, LAMBDA e : ~(e.prefix = prefix /\ e.idx = it.n - 1))
         IN ConvertAnalyses(prefix, Tail(items),
                            IF it.ok THEN Append(kept, entry) ELSE acc)

\* the exception the loop over an analyses mapping raises, "" for none:
\* len(None) is a TypeError, analysis.get on a string an AttributeError
AnalysesError(an) ==
    IF an.t = "null" THEN "TypeError"
    ELSE IF \E i \in 1..Len(an.items) : an.items[i].ok /\ an.items[i].val = Str
        THEN "AttributeError"
    ELSE ""

HasKey(analyses, prefix, idx) ==
    \E i \in 1..Len(analyses) : analyses[i].prefix = prefix /\ analyses[i].idx = idx

Lookup(analyses, prefix, idx) ==
    LET i == CHOOSE j \in 1..Len(analyses) :
                 analyses[j].prefix = prefix /\ analyses[j].idx = idx
    IN analyses[i].val

\* the body of the try block, from the outcome of the call on:
\* exc is the exception it raised ("" for none), ret the dictionary it returned
TryBody(o, a) ==
    IF o.kind = "raise" THEN [exc |-> o.error, ret |-> NoVerdict]
    ELSE IF o.kind = "empty" THEN [exc |-> "IndexError", ret |-> NoVerdict]
    ELSE LET v == o.parsed IN
        IF ~v.isdict THEN
            IF Len(a.all_matches) = 0 THEN [exc |-> "IndexError", ret |-> NoVerdict]
            ELSE [exc |-> "", ret |-> FuzzyVerdict(a, UnavailableReasoning)]
        ELSE IF v.best_match_index.t \in {"null", "str"}
            THEN [exc |-> "TypeError", ret |-> NoVerdict]
        ELSE IF AnalysesError(v.golden_source_analyses) # ""
            THEN [exc |-> AnalysesError(v.golden_source_analyses), ret |-> NoVerdict]
        ELSE IF AnalysesError(v.internal_analyses) # ""
            THEN [exc |-> AnalysesError(v.internal_analyses), ret |-> NoVerdict]
        ELSE LET src == IF v.best_match_source = Missing THEN GOLDEN
                        ELSE v.best_match_source
                 idx == (IF v.best_match_index.t = "missing" THEN 1
                         ELSE v.best_match_index.n) - 1
                 top == IF Len(a.all_matches) > 0
                        THEN IntVal(SimilarityScore(a.all_matches[1])) ELSE IntVal(0)
             IN [exc |-> "",
                 ret |-> Verdict(
                     IF v.match_found = Missing THEN "true" ELSE v.match_found,
                     RecommendedMatch(src, idx, a),
                     IF v.confidence.t = "missing" THEN top ELSE v.confidence,
                     IF v.reasoning = Missing THEN ReviewedReasoning ELSE <<v.reasoning>>,
                     ConvertAnalyses("int", v.internal_analyses.items,
                         ConvertAnalyses("gs", v.golden_source_analyses.items,
                                         NoMatchAnalyses)))]

\* an except clause that handles only the errors of the client library
ExceptHandlerClientErrorsOnly(e, a) ==
    IF e \notin CallErrors \/ Len(a.all_matches) = 0
        THEN [raised |-> TRUE, ret |-> NoVerdict]
    ELSE [raised |-> FALSE, ret |-> FuzzyVerdict(a, FailedReasoning(e))]

\* except Exception as e: the fall-back verdict; all_matches[0] raises IndexError
\* out of the handler when the merged list is empty
ExceptHandler(e, a) ==
    IF Len(a.all_matches) = 0 THEN [raised |-> TRUE, ret |-> NoVerdict]
    ELSE [raised |-> FALSE, ret |-> FuzzyVerdict(a, FailedReasoning(e))]

ReviewFuzzyMatchesWithClaude(o, a) ==
    LET t == TryBody(o, a)
    IN IF t.exc = "" THEN [raised |-> FALSE, ret |-> t.ret]
       ELSE ExceptHandler(t.exc, a)

----------------------------------------------------------------------------
(* match_address.                                                          *)

NoMatchReasoning ==
    <<"No addresses found matching the search criteria with sufficient similarity in either table.">>

NoResult ==
    [keys |-> {}, match_found |-> FALSE, best_match |-> EmptyRecord,
     golden_source_matches |-> <<>>, internal_matches |-> <<>>,
     confidence |-> 0, reasoning |-> <<>>, business_rule_exception |-> FALSE,
     candidates_searched |-> 0, search_method |-> "none"]

\* the dictionary returned when total_matches == 0 (it has no best_match, confidence
\* or business_rule_exception key)
NoMatchResult ==
    [keys |-> {"input_address", "match_found", "golden_source_matches", "internal_matches",
               "reasoning", "candidates_searched", "search_method", "has_golden_source",
               "has_internal"},
     match_found |-> FALSE, best_match |-> EmptyRecord,
     golden_source_matches |-> <<>>, internal_matches |-> <<>>,
     confidence |-> 0, reasoning |-> NoMatchReasoning, business_rule_exception |-> FALSE,
     candidates_searched |-> 0, search_method |-> "fuzzy_match"]

\* a flag raised at the threshold as well as below it
BusinessRuleExceptionAtOrBelow(best_score) == best_score <= FUZZY_MATCH_THRESHOLD

\* business_rule_exception = best_score < FUZZY_MATCH_THRESHOLD
BusinessRuleException(best_score) == best_score < FUZZY_MATCH_THRESHOLD

\* a result that carries the lists the adjudicator was handed, cut to their first TopN
MatchResultTruncated(best_match, best_score, reasoning, gs, int, total) ==
    [keys |-> {"input_address", "match_found", "best_match", "golden_source_matches",
               "internal_matches", "has_golden_source", "has_internal",
               "similarity_score", "confidence", "reasoning", "claude_review",
               "business_rule_exception", "confidence_threshold", "candidates_searched",
               "search_method", "matched_address"},
     match_found |-> TRUE, best_match |-> best_match,
     golden_source_matches |-> Take(gs, TopN), internal_matches |-> Take(int, TopN),
     confidence |-> best_score, reasoning |-> reasoning,
     business_rule_exception |-> BusinessRuleException(best_score),
     candidates_searched |-> total, search_method |-> "fuzzy_match_with_ai"]

\* the dictionary returned after the review
MatchResult(best_match, best_score, reasoning, gs, int, total) ==
    [keys |-> {"input_address", "match_found", "best_match", "golden_source_matches",
               "internal_matches", "has_golden_source", "has_internal",
               "similarity_score", "confidence", "reasoning", "claude_review",
               "business_rule_exception", "confidence_threshold", "candidates_searched",
               "search_method", "matched_address"},
     match_found |-> TRUE, best_match |-> best_match,
     golden_source_matches |-> gs, internal_matches |-> int,
     confidence |-> best_score, reasoning |-> reasoning,
     business_rule_exception |-> BusinessRuleException(best_score),
     candidates_searched |-> total, search_method |-> "fuzzy_match_with_ai"]

\* a test of the key's presence in place of its truth value
TruthyKeyPresent(mf) == mf \in {"true", "false", Null, Str}

\* if claude_review.get('match_found'): True and a non-empty string are truthy
Truthy(mf) == mf \in {"true", Str}

\* the arguments of the adjudicator: all_matches[:10] and each source's [:10]
ReviewArgs(all, gs, int) ==
    [all_matches |-> Take(all, TopN),
     golden_source_matches |-> Take(gs, TopN),
     internal_matches |-> Take(int, TopN)]

NoArgs == [all_matches |-> <<>>, golden_source_matches |-> <<>>, internal_matches |-> <<>>]

\* an attachment that looks the analyses up under the 1-based label of the prompt
AttachAnalysesOneBased(ai, analyses) ==
    [c \in DOMAIN ai |->
        IF c.src = GOLDEN /\ c.pos <= TopN /\ HasKey(analyses, "gs", c.pos)
            THEN Lookup(analyses, "gs", c.pos)
        ELSE IF c.src = INTERNAL /\ c.pos <= TopN /\ HasKey(analyses, "int", c.pos)
            THEN Lookup(analyses, "int", c.pos)
        ELSE ai[c]]

\* match['_ai_analysis'] = match_analyses[key] over the first TopN records of each source
AttachAnalyses(ai, analyses) ==
    [c \in DOMAIN ai |->
        IF c.src = GOLDEN /\ c.pos <= TopN /\ HasKey(analyses, "gs", c.pos - 1)
            THEN Lookup(analyses, "gs", c.pos - 1)
        ELSE IF c.src = INTERNAL /\ c.pos <= TopN /\ HasKey(analyses, "int", c.pos - 1)
            THEN Lookup(analyses, "int", c.pos - 1)
        ELSE ai[c]]

----------------------------------------------------------------------------
(* The state machine of one invocation.                                    *)

NoOutcome == [kind |-> "none", error |-> ""]

\* the verifier and the retriever when they are not the unit under study
NoAddress == [address1 |-> Absent, city |-> Absent, state |-> Absent, zipcode |-> Absent]

NoExactMatch == [called |-> FALSE, is_exact_match |-> FALSE, matched_record |-> 0]

NoMapping == [address |-> NoColumn, city |-> NoColumn, state |-> NoColumn, zip |-> NoColumn]

NoStreet == [street_number |-> <<>>, street_name_full |-> <<>>, street_name_core |-> <<>>]

NoReturn == [method |-> "none", raised |-> FALSE, rows |-> 0]

\* cursor = None
NoCursor == "none"

IdleVerifier ==
    /\ golden_address = NoAddress
    /\ exact_match = NoExactMatch

IdleRetriever ==
    /\ columns = <<>>
    /\ golden_columns = {}
    /\ search_criteria = {}
    /\ column_mapping = NoMapping
    /\ street = NoStreet
    /\ queries = <<>>
    /\ returned = NoReturn
    /\ cursor = NoCursor

\* main has called match_address and not yet seen it return or raise
NoExit == <<>>

InTry ==
    /\ printed = <<>>
    /\ exit_status = NoExit
    /\ agent_closed = FALSE

NoParse == [kind |-> "none", value |-> <<>>, raw_text |-> <<>>]

Init ==
    /\ pc = "start"
    /\ golden_source_matches = <<>>
    /\ internal_matches = <<>>
    /\ total_matches = 0
    /\ all_matches = <<>>
    /\ args = NoArgs
    /\ requests = 0
    /\ call_outcome = NoOutcome
    /\ parsed_response = NoResponse
    /\ claude_review = NoVerdict
    /\ ai_analysis = <<>>
    /\ result = NoResult
    /\ response_text = <<>>
    /\ parse_result = NoParse
    /\ IdleVerifier
    /\ IdleRetriever
    /\ InTry

\* match_results = self.golden_source.fuzzy_match_addresses(input_address, threshold)
FuzzyMatch(S) ==
    /\ pc = "start"
    /\ \E g \in S, i \in S :
        /\ golden_source_matches' = Rows(GOLDEN, g)
        /\ internal_matches' = Rows(INTERNAL, i)
        /\ total_matches' = Len(g) + Len(i)
        /\ ai_analysis' = [c \in Range(Rows(GOLDEN, g)) \cup Range(Rows(INTERNAL, i))
                              |-> NoAnalysis]
    /\ pc' = "retrieved"
    /\ UNCHANGED <<all_matches, args, requests, call_outcome, parsed_response,
                   claude_review, result>>
    /\ UNCHANGED <<parser_vars, verifier_vars, retriever_vars, main_vars>>

\* a short circuit placed after the request was sent
ReturnNoMatchesAfterRequest ==
    /\ pc = "retrieved"
    /\ total_matches = 0
    /\ requests' = requests + 1
    /\ result' = NoMatchResult
    /\ pc' = "done"
    /\ UNCHANGED <<golden_source_matches, internal_matches, total_matches, all_matches,
                   args, call_outcome, parsed_response, claude_review, ai_analysis>>
    /\ UNCHANGED <<parser_vars, verifier_vars, retriever_vars, main_vars>>

\* if total_matches == 0: return {... "match_found": False ...}
ReturnNoMatches ==
    /\ pc = "retrieved"
    /\ total_matches = 0
    /\ result' = NoMatchResult
    /\ pc' = "done"
    /\ UNCHANGED <<golden_source_matches, internal_matches, total_matches, all_matches,
                   args, requests, call_outcome, parsed_response, claude_review,
                   ai_analysis>>
    /\ UNCHANGED <<parser_vars, verifier_vars, retriever_vars, main_vars>>

\* merge, sort, truncate, build the prompt and call messages.create
SendToClaude ==
    /\ pc = "retrieved"
    /\ total_matches # 0
    /\ all_matches' = MergeMatches(golden_source_matches, internal_matches)
    /\ args' = ReviewArgs(all_matches', golden_source_matches, internal_matches)
    /\ requests' = requests + 1
    /\ pc' = "awaiting"
    /\ UNCHANGED <<golden_source_matches, internal_matches, total_matches, call_outcome,
                   parsed_response, claude_review, ai_analysis, result>>
    /\ UNCHANGED <<parser_vars, verifier_vars, retriever_vars, main_vars>>

\* the rest of the adjudicator, once the call has returned or raised
Adjudicate(o) ==
    LET r == ReviewFuzzyMatchesWithClaude(o, args)
    IN /\ call_outcome' = [kind |-> o.kind, error |-> o.error]
       /\ parsed_response' = o.parsed
       /\ claude_review' = r.ret
       /\ pc' = IF r.raised THEN "review_raised" ELSE "reviewed"
       /\ UNCHANGED <<golden_source_matches, internal_matches, total_matches, all_matches,
                      args, requests, ai_analysis, result>>
       /\ UNCHANGED <<parser_vars, verifier_vars, retriever_vars, main_vars>>

\* the call returns a message whose text _parse_claude_response turns into v
ClaudeReplies(V) ==
    /\ pc = "awaiting"
    /\ \E v \in V : Adjudicate([kind |-> "text", error |-> "", parsed |-> v])

\* the call returns a message without content: message.content[0] raises
ClaudeRepliesNoContent ==
    /\ pc = "awaiting"
    /\ Adjudicate([kind |-> "empty", error |-> "", parsed |-> NoResponse])

\* a failed call that is sent again
ClaudeFailsAndIsRetried ==
    /\ pc = "awaiting"
    /\ requests' = requests + 1
    /\ UNCHANGED <<pc, golden_source_matches, internal_matches, total_matches, all_matches,
                   args, call_outcome, parsed_response, claude_review, ai_analysis, result>>
    /\ UNCHANGED <<parser_vars, verifier_vars, retriever_vars, main_vars>>

\* the call raises
ClaudeFails ==
    /\ pc = "awaiting"
    /\ \E e \in CallErrors : Adjudicate([kind |-> "raise", error |-> e, parsed |-> NoResponse])

\* attach the analyses, choose the best match, format the score, return the result
AssembleResult ==
    /\ pc = "reviewed"
    /\ ai_analysis' = AttachAnalyses(ai_analysis, claude_review.match_analyses)
    /\ LET best_match == IF Truthy(claude_review.match_found)
                         THEN claude_review.best_match ELSE all_matches[1]
           best_score == IF Truthy(claude_review.match_found)
                         THEN claude_review.confidence
                         ELSE IntVal(SimilarityScore(all_matches[1]))
           reasoning == claude_review.reasoning
       IN IF best_score.t # "int"
          THEN \* f"{best_score:.2f}" raises TypeError or ValueError
               /\ pc' = "raised"
               /\ UNCHANGED result
          ELSE /\ pc' = "done"
               /\ result' = MatchResult(best_match, best_score.n, reasoning,
                                        golden_source_matches, internal_matches,
                                        total_matches)
    /\ UNCHANGED <<golden_source_matches, internal_matches, total_matches, all_matches,
                   args, requests, call_outcome, parsed_response, claude_review>>
    /\ UNCHANGED <<parser_vars, verifier_vars, retriever_vars, main_vars>>

Next ==
    \/ FuzzyMatch(ScoreSeqs(MaxLen))
    \/ ReturnNoMatches
    \/ SendToClaude
    \/ ClaudeReplies(Verdicts)
    \/ ClaudeRepliesNoContent
    \/ ClaudeFails
    \/ AssembleResult

Spec == Init /\ [][Next]_vars

\* the same invocation over long candidate lists
NextLong ==
    \/ FuzzyMatch(LongScoreSeqs)
    \/ ReturnNoMatches
    \/ SendToClaude
    \/ ClaudeReplies(LongVerdicts)
    \/ ClaudeRepliesNoContent
    \/ ClaudeFails
    \/ AssembleResult

SpecLong == Init /\ [][NextLong]_vars

----------------------------------------------------------------------------
(* main (src/main_alt.py), from the call of match_address on.              *)

\* what the try block prints once match_address has returned, and the exception that
\* stops it ("" for none): result['input_address'], 'candidates_searched' in result,
\* result['claude_response'] are subscripted in this order
Summary(res) ==
    LET header == <<"MATCH RESULT">>
        input == <<"Input Address">>
        searched == IF "candidates_searched" \in res.keys
                    THEN <<"Candidates Searched">> ELSE <<>>
        analysis == <<"Claude's Analysis:">>
    IN IF "input_address" \notin res.keys
       THEN [lines |-> header, exc |-> "KeyError"]
       ELSE IF "claude_response" \notin res.keys
       THEN [lines |-> header \o input \o searched \o analysis, exc |-> "KeyError"]
       ELSE [lines |-> header \o input \o searched \o analysis \o <<"verdict", "rule">>,
             exc |-> ""]

\* the summary was printed down to its closing rule
SummaryPrinted == printed # <<>> /\ printed[Len(printed)] = "rule"

\* match_address returned: the rest of the try block, the except clause when a
\* subscript raises (print the error, sys.exit(1)), and the finally clause
PrintSummary ==
    /\ pc = "done"
    /\ exit_status = NoExit
    /\ LET s == Summary(result)
       IN /\ printed' = IF s.exc = "" THEN s.lines ELSE s.lines \o <<"Error">>
          /\ exit_status' = IF s.exc = "" THEN <<0>> ELSE <<1>>
    /\ agent_closed' = TRUE
    /\ UNCHANGED <<pc, pipeline_vars, parser_vars, verifier_vars, retriever_vars>>

\* match_address raised: except Exception as e: print, sys.exit(1); finally: agent.close()
HandleError ==
    /\ pc \in {"raised", "review_raised"}
    /\ exit_status = NoExit
    /\ printed' = <<"Error">>
    /\ exit_status' = <<1>>
    /\ agent_closed' = TRUE
    /\ UNCHANGED <<pc, pipeline_vars, parser_vars, verifier_vars, retriever_vars>>

NextMain ==
    \/ Next
    \/ PrintSummary
    \/ HandleError

SpecMain == Init /\ [][NextMain]_vars

\* C21: the command-line entry point exits non-zero when match_address raises, and
\* whenever match_address returns a result, matched or not, it prints the summary
\* down to its closing rule and terminates with status zero; agent.close() was
\* called on both paths
C21_MainPrintsSummaryAndExitsZero ==
    exit_status # NoExit =>
        /\ agent_closed
        /\ (pc \in {"raised", "review_raised"} => exit_status = <<1>>)
        /\ (pc = "done" => exit_status = <<0>> /\ SummaryPrinted)

----------------------------------------------------------------------------
(* Properties of the adjudication pipeline.                                *)

\* the adjudicator has returned or raised
Reviewed == pc \in {"reviewed", "review_raised", "done", "raised"}

\* the top fuzzy candidate with its own score as the confidence
IsTopFuzzy(v) ==
    /\ v.best_match = args.all_matches[1]
    /\ v.confidence = IntVal(SimilarityScore(args.all_matches[1]))

\* C1: when response recovery fails on all tiers and the parser returns the raw
\* sentinel, the adjudicator's verdict has the highest-scoring merged candidate
\* all_matches[0] as best_match and that candidate's score as confidence.
C1_RawSentinelFallsBackToTopFuzzy ==
    (Reviewed /\ call_outcome.kind = "text" /\ parsed_response.raw)
        => (pc # "review_raised" /\ IsTopFuzzy(claude_review))

\* C2: when total_matches == 0 the result has match_found = false, empty candidate
\* lists, candidates_searched = 0 and the fixed reasoning, and no request is sent
\* to the reasoning model at any point of the invocation.
C2_NoMatchesShortCircuit ==
    (pc # "start" /\ total_matches = 0)
        => /\ requests = 0
           /\ pc \in {"retrieved", "done"}
           /\ pc = "done" =>
                /\ result.match_found = FALSE
                /\ result.golden_source_matches = <<>>
                /\ result.internal_matches = <<>>
                /\ result.candidates_searched = 0
                /\ result.reasoning = NoMatchReasoning
                /\ "best_match" \notin result.keys

C2_Witness ==
    /\ pc = "done"
    /\ total_matches = 0
    /\ result.match_found = FALSE
    /\ result.reasoning = NoMatchReasoning
    /\ requests = 0

\* the candidate list of the source a verdict points into (a missing
\* best_match_source means 'golden_source'), empty for any other source
PointedList(v) ==
    IF v.best_match_source \in {GOLDEN, Missing} THEN args.golden_source_matches
    ELSE IF v.best_match_source = INTERNAL THEN args.internal_matches
    ELSE <<>>

\* the 1-based index a verdict points at (a missing best_match_index means 1)
PointedIndex(v) ==
    IF v.best_match_index.t = "missing" THEN 1 ELSE v.best_match_index.n

\* C3: a parsed verdict whose 1-based best_match_index lies outside the truncated
\* candidate list of its best_match_source, or whose source is neither
\* 'golden_source' nor 'internal', gets the top merged candidate all_matches[0] as
\* recommended match, and the adjudicator does not raise.
C3_PointerIsRangeChecked ==
    (Reviewed /\ call_outcome.kind = "text" /\ parsed_response.isdict
        /\ parsed_response.best_match_index.t \in {"int", "missing"}
        /\ (\/ PointedIndex(parsed_response) < 1
            \/ PointedIndex(parsed_response) > Len(PointedList(parsed_response))))
        => (pc # "review_raised" /\ claude_review.best_match = args.all_matches[1])

C3_Witness ==
    /\ pc = "reviewed"
    /\ parsed_response.isdict
    /\ parsed_response.best_match_source = GOLDEN
    /\ parsed_response.best_match_index = IntVal(5)
    /\ Len(args.golden_source_matches) = 2
    /\ claude_review.reasoning = ReviewedReasoning
    /\ claude_review.best_match = args.all_matches[1]
    /\ args.all_matches[1].src = INTERNAL

\* C4: with total_matches > 0, match_address returns a result and does not raise,
\* whatever the reasoning-model call does and whatever the verdict's fields hold.
C4_MatchAddressNeverRaises ==
    total_matches > 0 => pc \notin {"raised", "review_raised"}

\* the exception the try block of the adjudicator raised in this invocation, "" for none
RaisedInReview ==
    IF call_outcome.kind = "raise" THEN call_outcome.error
    ELSE IF call_outcome.kind = "empty" THEN "IndexError"
    ELSE IF call_outcome.kind = "text" /\ parsed_response.isdict
        THEN IF parsed_response.best_match_index.t \in {"null", "str"} THEN "TypeError"
             ELSE IF parsed_response.golden_source_analyses.t = "null" THEN "TypeError"
             ELSE IF \E i \in 1..Len(parsed_response.golden_source_analyses.items) :
                        /\ parsed_response.golden_source_analyses.items[i].ok
                        /\ parsed_response.golden_source_analyses.items[i].val = Str
                 THEN "AttributeError"
             ELSE IF parsed_response.internal_analyses.t = "null" THEN "TypeError"
             ELSE IF \E i \in 1..Len(parsed_response.internal_analyses.items) :
                        /\ parsed_response.internal_analyses.items[i].ok
                        /\ parsed_response.internal_analyses.items[i].val = Str
                 THEN "AttributeError"
             ELSE ""
    ELSE ""

C6_NoRetries ==
    /\ requests <= 1
    /\ (Reviewed /\ call_outcome.kind = "raise") => requests = 1
    /\ (pc = "done" /\ call_outcome.kind = "raise")
        => /\ result.best_match = all_matches[1]
           /\ result.confidence = SimilarityScore(all_matches[1])

C6_Witness ==
    /\ pc = "done"
    /\ call_outcome.kind = "raise"
    /\ requests = 1
    /\ result.best_match = all_matches[1]

\* candidates beyond the first TopN of their source: not enumerated in the prompt
DroppedFromPrompt ==
    {c \in Range(golden_source_matches) \cup Range(internal_matches) : c.pos > TopN}

RetainedInPrompt == Range(args.golden_source_matches) \cup Range(args.internal_matches)

Merged == pc \in {"awaiting", "reviewed", "review_raised", "done", "raised"}

\* C9 as stated: no candidate left out of the first 10 of golden_source_matches and
\* the first 10 of internal_matches has a strictly higher score than a candidate
\* retained in them, from the same or the other source.
C9_PerSourceTruncationKeepsHighScorers ==
    Merged => \A d \in DroppedFromPrompt : \A r \in RetainedInPrompt :
                  SimilarityScore(d) <= SimilarityScore(r)

\* C9 as amended: no candidate left out of the merged top 10, all_matches[:10], has
\* a strictly higher score than a candidate retained in it, from either source.
C9_MergedTruncationKeepsHighScorers ==
    Merged =>
        /\ args.all_matches = Take(all_matches, TopN)
        /\ \A d \in Range(all_matches) \ Range(args.all_matches) :
               \A r \in Range(args.all_matches) :
                   SimilarityScore(d) <= SimilarityScore(r)

C9_Witness ==
    /\ pc = "awaiting"
    /\ Len(golden_source_matches) > TopN
    /\ Len(internal_matches) > TopN
    /\ SimilarityScore(golden_source_matches[1]) < SimilarityScore(internal_matches[TopN + 1])
    /\ \A r \in Range(args.all_matches) : r.src = INTERNAL
    /\ \E d \in Range(all_matches) \ Range(args.all_matches) : d.src = INTERNAL

\* the place of candidate c in the merged list
PlaceOf(c) == CHOOSE j \in 1..Len(all_matches) : all_matches[j] = c

\* C10: the merged list is a permutation of golden_source_matches followed by
\* internal_matches, in non-increasing score order, candidates of equal score in
\* their concatenation order.
C10_MergedListSortedAndStable ==
    Merged =>
        LET cat == golden_source_matches \o internal_matches
        IN /\ Len(all_matches) = Len(cat)
           /\ \A i \in 1..Len(cat) : \E j \in 1..Len(all_matches) : all_matches[j] = cat[i]
           /\ \A i, j \in 1..Len(all_matches) :
                  i < j => SimilarityScore(all_matches[i]) >= SimilarityScore(all_matches[j])
           /\ \A i, j \in 1..Len(cat) :
                  (i < j /\ SimilarityScore(cat[i]) = SimilarityScore(cat[j]))
                      => PlaceOf(cat[i]) < PlaceOf(cat[j])

C10_Witness ==
    /\ pc = "awaiting"
    /\ Len(golden_source_matches) = 2
    /\ Len(internal_matches) = 2
    /\ all_matches = <<golden_source_matches[2], internal_matches[1],
                       golden_source_matches[1], internal_matches[2]>>
    /\ SimilarityScore(all_matches[2]) = SimilarityScore(all_matches[1])
    /\ SimilarityScore(all_matches[3]) < SimilarityScore(all_matches[2])

\* the keys under which a result would carry what _check_exact_match returned
VerifierKeys == {"is_exact_match", "matched_record", "exact_match"}

\* C11: whenever total_matches > 0, the returned result carries the exact-match
\* verifier's findings for the adjudicated best match.
C11_ResultCarriesVerifierFindings ==
    (pc = "done" /\ total_matches > 0) =>
        /\ exact_match.called
        /\ result.keys \cap VerifierKeys # {}

\* C12: when total_matches > 0, business_rule_exception is true exactly when the
\* result's confidence is strictly below the configured threshold, and the result
\* carries match_found and a best_match record whatever the flag is.
C12_ExceptionFlagIsAdvisory ==
    (pc = "done" /\ total_matches > 0) =>
        /\ result.business_rule_exception <=> (result.confidence < FUZZY_MATCH_THRESHOLD)
        /\ {"match_found", "best_match", "business_rule_exception"} \subseteq result.keys
        /\ result.match_found
        /\ result.best_match \in Range(all_matches)

\* a result whose confidence is exactly the threshold: the flag is down
C12_Witness ==
    /\ pc = "done"
    /\ total_matches > 0
    /\ result.confidence = FUZZY_MATCH_THRESHOLD
    /\ ~result.business_rule_exception
    /\ result.best_match \in Range(all_matches)

\* the records the retriever produced for a source
Produced(src) == {c \in DOMAIN ai_analysis : c.src = src}

\* the list holds every record the retriever produced for the source, each with the
\* source, position and score it was retrieved with, in retrieval order
AsRetrieved(list, src) ==
    /\ Len(list) = Cardinality(Produced(src))
    /\ \A i \in 1..Len(list) : list[i] \in Produced(src) /\ list[i].pos = i

\* C22: candidate records are read-only after retrieval except for the attachment of
\* _ai_analysis: throughout an invocation golden_source_matches and internal_matches,
\* and the two lists of the result it returns, hold the records the retriever
\* produced, unchanged and in the retriever's order (the sort of the merged list does
\* not reorder them, the truncation before the review does not shorten them), and no
\* step after retrieval adds or removes a record
C22_CandidatesAreReadOnly ==
    /\ [](/\ pc # "start" =>
              /\ AsRetrieved(golden_source_matches, GOLDEN)
              /\ AsRetrieved(internal_matches, INTERNAL)
          /\ pc = "done" =>
              /\ AsRetrieved(result.golden_source_matches, GOLDEN)
              /\ AsRetrieved(result.internal_matches, INTERNAL))
    /\ [][pc # "start" => DOMAIN ai_analysis' = DOMAIN ai_analysis]_vars

\* a result whose golden-source list is longer than TopN, after a sort that reordered
\* the merged list and an attachment of an analysis
C22_Witness ==
    /\ pc = "done"
    /\ result.match_found
    /\ Len(result.golden_source_matches) > TopN
    /\ all_matches # golden_source_matches \o internal_matches
    /\ \E c \in DOMAIN ai_analysis : ai_analysis[c] # NoAnalysis

\* the verdict is a dictionary whose pointer is usable and whose analyses are
\* dictionaries of dictionaries, whatever their keys are
AnalysesWellFormed ==
    /\ call_outcome.kind = "text"
    /\ parsed_response.isdict
    /\ parsed_response.best_match_index.t \in {"int", "missing"}
    /\ \A an \in {parsed_response.golden_source_analyses, parsed_response.internal_analyses} :
          /\ an.t \in {"dict", "missing"}
          /\ \A i \in 1..Len(an.items) : an.items[i].val # Str

\* the analyses the verdict gives for a source
AnalysesOf(src) ==
    IF src = GOLDEN THEN parsed_response.golden_source_analyses
    ELSE parsed_response.internal_analyses

\* the items of an analyses mapping whose key int() turns into k
Keyed(an, k) == {i \in 1..Len(an.items) : an.items[i].ok /\ an.items[i].n = k}

\* the analysis keyed k: that of the last such key when several keys denote k
AnalysisKeyed(an, k) ==
    an.items[CHOOSE i \in Keyed(an, k) : \A j \in Keyed(an, k) : j <= i].val

\* the label GS-k or INT-k the prompt gives a candidate: its 1-based position in the
\* first TopN of its source; 0 for a candidate the prompt does not list
Label(c) == IF c.pos <= TopN THEN c.pos ELSE 0

\* C23: attachment translates the keys as the prompt labels the candidates: an analysis
\* keyed k under golden_source_analyses (resp. internal_analyses) becomes the
\* _ai_analysis of exactly the candidate labelled GS-k (resp. INT-k), position k - 1 of
\* the first TopN of that source, and of no other candidate; a key that int() rejects
\* or that lies outside 1..min(TopN, length of the list) attaches to no candidate, and
\* neither makes the review fail or fall back
C23_AnalysesFollowPromptLabels ==
    (pc \in {"done", "raised"} /\ AnalysesWellFormed) =>
        \A c \in DOMAIN ai_analysis :
            IF Label(c) # 0 /\ Keyed(AnalysesOf(c.src), Label(c)) # {}
            THEN ai_analysis[c] = AnalysisKeyed(AnalysesOf(c.src), Label(c))
            ELSE ai_analysis[c] = NoAnalysis

\* golden-source analyses keyed 2 and 1 in this order, internal analyses with a key
\* int() rejects before the key 1: each analysis is on the candidate of its label
C23_Witness ==
    /\ pc = "done"
    /\ AnalysesWellFormed
    /\ parsed_response.golden_source_analyses =
           DictAnalyses(<<Item(TRUE, 2, "A2"), Item(TRUE, 1, "A1")>>)
    /\ parsed_response.internal_analyses =
           DictAnalyses(<<Item(FALSE, 0, "A1"), Item(TRUE, 1, "A2")>>)
    /\ Len(golden_source_matches) = 2
    /\ Len(internal_matches) = 2
    /\ ai_analysis[golden_source_matches[1]] = "A1"
    /\ ai_analysis[golden_source_matches[2]] = "A2"
    /\ ai_analysis[internal_matches[1]] = "A2"
    /\ ai_analysis[internal_matches[2]] = NoAnalysis

\* C24: a result with match_found true has as its best_match one of the records of
\* its own golden_source_matches or internal_matches, never the empty dictionary or a
\* record the retriever did not produce, whatever verdict the reasoning model returned
C24_BestMatchIsACandidate ==
    (pc = "done" /\ result.match_found) =>
        /\ result.best_match # EmptyRecord
        /\ result.best_match \in
               Range(result.golden_source_matches) \cup Range(result.internal_matches)

\* a verdict that confirms a match but points past the end of the golden-source
\* list: the result's best_match is the top merged candidate
C24_Witness ==
    /\ pc = "done"
    /\ result.match_found
    /\ parsed_response.isdict
    /\ parsed_response.match_found = "true"
    /\ parsed_response.best_match_source = GOLDEN
    /\ parsed_response.best_match_index = IntVal(5)
    /\ result.best_match = all_matches[1]
    /\ result.best_match \in Range(result.internal_matches)

\* C25: with total_matches > 0 and a verdict whose match_found is false, match_address
\* still returns a result with match_found true, whose best_match is the top merged
\* candidate all_matches[0] and whose confidence is that candidate's similarity score,
\* whatever best_match and confidence the verdict carries; so a returned result has
\* match_found true exactly when total_matches > 0
C25_NegativeVerdictIsOverridden ==
    /\ pc = "done" => (result.match_found <=> total_matches > 0)
    /\ (/\ pc \in {"done", "raised"}
        /\ total_matches > 0
        /\ claude_review.match_found = "false") =>
           /\ pc = "done"
           /\ result.match_found
           /\ result.best_match = all_matches[1]
           /\ result.confidence = SimilarityScore(all_matches[1])

\* a verdict with match_found false that points at the second golden-source candidate
\* with confidence 99, while the top merged candidate is an internal one of score 80
C25_Witness ==
    /\ pc = "done"
    /\ parsed_response.isdict
    /\ parsed_response.match_found = "false"
    /\ claude_review.match_found = "false"
    /\ claude_review.confidence = IntVal(99)
    /\ claude_review.best_match # all_matches[1]
    /\ result.match_found
    /\ result.best_match = all_matches[1]
    /\ result.confidence = 80

----------------------------------------------------------------------------
(* _parse_claude_response, over strings of tokens.  A token is one         *)
(* character, except that the fence of three backticks and the label json  *)
(* are one token each (neither holds a character the parser tells apart).  *)

LB == "{"
RB == "}"
QT == "quote"
BS == "backslash"
FENCE == "fence"
JSON == "json"
WS == " "
COLON == ":"
ONE == "1"
X == "x"

Alphabet == {LB, RB, QT, BS, FENCE, JSON, WS, COLON, ONE, X}

\* the first index from i on that holds no whitespace, Len(s) + 1 when there is none
RECURSIVE SkipWs(_, _)
SkipWs(s, i) == IF i <= Len(s) /\ s[i] = WS THEN SkipWs(s, i + 1) ELSE i

\* response_text.strip()
RECURSIVE StripLeft(_)
StripLeft(s) == IF s # <<>> /\ Head(s) = WS THEN StripLeft(Tail(s)) ELSE s

Strip(s) == Reverse(StripLeft(Reverse(StripLeft(s))))

(* json.loads: the JSON grammar over the alphabet.  A value is a number    *)
(* (a run of digits 1), a string (quotes around any tokens but quote and    *)
(* backslash, each of which a backslash escapes), or an object {} or       *)
(* {string : value} with optional whitespace between its tokens.           *)

\* index of the quote closing the string whose content starts at i, 0 if invalid
RECURSIVE StringEnd(_, _)
StringEnd(s, i) ==
    IF i > Len(s) THEN 0
    ELSE IF s[i] = QT THEN i
    ELSE IF s[i] = BS
        THEN IF i + 1 <= Len(s) /\ s[i + 1] \in {QT, BS} THEN StringEnd(s, i + 2) ELSE 0
    ELSE StringEnd(s, i + 1)

\* index of the last digit of the number starting at i
RECURSIVE NumberEnd(_, _)
NumberEnd(s, i) == IF i + 1 <= Len(s) /\ s[i + 1] = ONE THEN NumberEnd(s, i + 1) ELSE i

\* index of the last token of the JSON value starting at i, 0 if there is none
RECURSIVE ValueEnd(_, _)
ValueEnd(s, i) ==
    IF i > Len(s) THEN 0
    ELSE IF s[i] = QT THEN StringEnd(s, i + 1)
    ELSE IF s[i] = ONE THEN NumberEnd(s, i)
    ELSE IF s[i] = LB THEN
        LET k == SkipWs(s, i + 1) IN
        IF k > Len(s) THEN 0
        ELSE IF s[k] = RB THEN k
        ELSE IF s[k] # QT THEN 0
        ELSE LET ke == StringEnd(s, k + 1) IN
             IF ke = 0 THEN 0
             ELSE LET c == SkipWs(s, ke + 1) IN
                  IF c > Len(s) \/ s[c] # COLON THEN 0
                  ELSE LET ve == ValueEnd(s, SkipWs(s, c + 1)) IN
                       IF ve = 0 THEN 0
                       ELSE LET r == SkipWs(s, ve + 1) IN
                            IF r <= Len(s) /\ s[r] = RB THEN r ELSE 0
    ELSE 0

\* the document is one JSON value (json.loads raises JSONDecodeError otherwise)
IsJson(s) == s # <<>> /\ s[1] # WS /\ ValueEnd(s, 1) = Len(s)

\* the value json.loads returns, as the document without its insignificant whitespace
RECURSIVE Decode(_, _, _)
Decode(s, i, in_string) ==
    IF i > Len(s) THEN <<>>
    ELSE IF in_string /\ s[i] = BS THEN <<s[i], s[i + 1]>> \o Decode(s, i + 2, TRUE)
    ELSE IF s[i] = QT THEN <<QT>> \o Decode(s, i + 1, ~in_string)
    ELSE IF ~in_string /\ s[i] = WS THEN Decode(s, i + 1, FALSE)
    ELSE <<s[i]>> \o Decode(s, i + 1, in_string)

JsonValue(s) == Decode(s, 1, FALSE)

\* what the parser returns: a parsed JSON value, or the raw-text dictionary
Parsed(value) == [kind |-> "json", value |-> value, raw_text |-> <<>>]
Unparsed(text) == [kind |-> "raw", value |-> <<>>, raw_text |-> text]

(* re.search over the pattern: fence, optional json, whitespace, a group   *)
(* from { lazily to a }, whitespace, fence (re.DOTALL).                    *)

\* index of the { that opens the group of a match starting at fence p, 0 if none
GroupStart(s, p) ==
    IF p > Len(s) \/ s[p] # FENCE THEN 0
    ELSE LET a == IF p + 1 <= Len(s) /\ s[p + 1] = JSON THEN p + 2 ELSE p + 1
             q == SkipWs(s, a)
         IN IF q <= Len(s) /\ s[q] = LB THEN q ELSE 0

\* } at e closes the group: only whitespace lies between it and a fence
ClosesGroup(s, e) ==
    /\ s[e] = RB
    /\ SkipWs(s, e + 1) <= Len(s)
    /\ s[SkipWs(s, e + 1)] = FENCE

\* the lazy .*?: index of the first } after q that closes the group, 0 if none
RECURSIVE GroupEnd(_, _)
GroupEnd(s, e) ==
    IF e > Len(s) THEN 0
    ELSE IF ClosesGroup(s, e) THEN e
    ELSE GroupEnd(s, e + 1)

\* group(1) of the leftmost match from fence p on, <<>> when nothing matches
RECURSIVE FencedGroup(_, _)
FencedGroup(s, p) ==
    IF p > Len(s) THEN <<>>
    ELSE LET q == GroupStart(s, p)
             e == IF q = 0 THEN 0 ELSE GroupEnd(s, q + 1)
         IN IF e # 0 THEN SubSeq(s, q, e) ELSE FencedGroup(s, p + 1)

(* The bracket-counting scan from the first {.                             *)

\* response_text.find('{'), 0 when there is none
RECURSIVE FindBrace(_, _)
FindBrace(s, i) ==
    IF i > Len(s) THEN 0 ELSE IF s[i] = LB THEN i ELSE FindBrace(s, i + 1)

\* the loop: index of the } that brings bracket_count back to 0, 0 if the text ends first
RECURSIVE ScanBrackets(_, _, _, _)
ScanBrackets(s, i, bracket_count, in_string) ==
    IF i > Len(s) THEN 0
    ELSE IF s[i] = BS THEN ScanBrackets(s, i + 2, bracket_count, in_string)
    ELSE IF s[i] = QT THEN ScanBrackets(s, i + 1, bracket_count, ~in_string)
    ELSE IF ~in_string /\ s[i] = LB THEN ScanBrackets(s, i + 1, bracket_count + 1, in_string)
    ELSE IF ~in_string /\ s[i] = RB
        THEN IF bracket_count - 1 = 0 THEN i
             ELSE ScanBrackets(s, i + 1, bracket_count - 1, in_string)
    ELSE ScanBrackets(s, i + 1, bracket_count, in_string)

\* json_str of the scan, <<>> when there is no { or no matching }
ScannedObject(s) ==
    LET start_idx == FindBrace(s, 1)
        e == IF start_idx = 0 THEN 0 ELSE ScanBrackets(s, start_idx, 0, FALSE)
    IN IF e = 0 THEN <<>> ELSE SubSeq(s, start_idx, e)

\* a parser that looks for the fenced block before it tries the whole text
ParseClaudeResponseFenceFirst(text) ==
    IF FencedGroup(text, 1) # <<>> /\ IsJson(FencedGroup(text, 1))
        THEN Parsed(JsonValue(FencedGroup(text, 1)))
    ELSE IF IsJson(Strip(text)) THEN Parsed(JsonValue(Strip(text)))
    ELSE IF ScannedObject(text) # <<>> /\ IsJson(ScannedObject(text))
        THEN Parsed(JsonValue(ScannedObject(text)))
    ELSE Unparsed(text)

ParseClaudeResponse(text) ==
    IF IsJson(Strip(text)) THEN Parsed(JsonValue(Strip(text)))
    ELSE IF FencedGroup(text, 1) # <<>> /\ IsJson(FencedGroup(text, 1))
        THEN Parsed(JsonValue(FencedGroup(text, 1)))
    ELSE IF ScannedObject(text) # <<>> /\ IsJson(ScannedObject(text))
        THEN Parsed(JsonValue(ScannedObject(text)))
    ELSE Unparsed(text)

----------------------------------------------------------------------------
(* The parser applied to response texts.                                   *)

\* every string of at most n tokens
Texts(n) == UNION {[1..k -> Alphabet] : k \in 0..n}

\* JSON objects a verdict can be: {}, {"x":1}, {"x": "x"}, {"x":{"x":1}},
\* and objects with a string that holds } and a fence, an escaped quote, a {,
\* or a whole fenced block
JsonObjects ==
    {<<LB, RB>>,
     <<LB, QT, X, QT, COLON, ONE, RB>>,
     <<LB, QT, X, QT, COLON, WS, QT, X, QT, RB>>,
     <<LB, QT, X, QT, COLON, LB, QT, X, QT, COLON, ONE, RB, RB>>,
     <<LB, QT, X, QT, COLON, QT, RB, FENCE, QT, RB>>,
     <<LB, QT, X, QT, COLON, QT, BS, QT, QT, RB>>,
     <<LB, QT, X, QT, COLON, QT, LB, QT, RB>>,
     <<LB, QT, X, QT, COLON, QT, FENCE, LB, RB, FENCE, QT, RB>>}

\* prose around a fenced block: words, spaces, a quote, braces
Prose == {<<>>, <<X>>, <<X, WS>>, <<WS, X, QT>>, <<X, LB, X, RB, WS>>}

Gaps == {<<>>, <<WS>>}

\* pre, then the block: fence, label, J between gaps, fence, then post
Embed(pre, label, gap, J, post) ==
    pre \o <<FENCE>> \o label \o gap \o J \o gap \o <<FENCE>> \o post

FencedTexts ==
    {Embed(pre, label, gap, J, post) :
        pre \in Prose, label \in {<<>>, <<JSON>>}, gap \in Gaps, J \in JsonObjects,
        post \in Prose}

ResponseTexts == Texts(MaxText) \cup JsonObjects \cup FencedTexts

InitParse ==
    /\ pc = "parse_start"
    /\ golden_source_matches = <<>>
    /\ internal_matches = <<>>
    /\ total_matches = 0
    /\ all_matches = <<>>
    /\ args = NoArgs
    /\ requests = 0
    /\ call_outcome = NoOutcome
    /\ parsed_response = NoResponse
    /\ claude_review = NoVerdict
    /\ ai_analysis = <<>>
    /\ result = NoResult
    /\ response_text = <<>>
    /\ parse_result = NoParse
    /\ IdleVerifier
    /\ IdleRetriever
    /\ InTry

\* response_text = message.content[0].text
ReceiveResponse(T) ==
    /\ pc = "parse_start"
    /\ \E t \in T : response_text' = t
    /\ pc' = "parse_received"
    /\ UNCHANGED parse_result
    /\ UNCHANGED <<pipeline_vars, verifier_vars, retriever_vars, main_vars>>

\* parsed_response = self._parse_claude_response(response_text)
ParseResponse ==
    /\ pc = "parse_received"
    /\ parse_result' = ParseClaudeResponse(response_text)
    /\ pc' = "parsed"
    /\ UNCHANGED response_text
    /\ UNCHANGED <<pipeline_vars, verifier_vars, retriever_vars, main_vars>>

NextParse ==
    \/ ReceiveResponse(ResponseTexts)
    \/ ParseResponse

SpecParse == InitParse /\ [][NextParse]_vars

\* a tier's candidate text parses as JSON
WholeParses == IsJson(Strip(response_text))
FenceParses == FencedGroup(response_text, 1) # <<>> /\ IsJson(FencedGroup(response_text, 1))
ScanParses == ScannedObject(response_text) # <<>> /\ IsJson(ScannedObject(response_text))

\* C7: the parser returns the whole text parsed as JSON whenever that parses; only
\* otherwise the fenced block; only otherwise the object the bracket scan finds
\* from the first {; and only when all three fail the raw sentinel, whose raw_text
\* is the response text itself.
C7_RecoveryIsStrictlyTiered ==
    pc = "parsed" =>
        /\ WholeParses => parse_result = Parsed(JsonValue(Strip(response_text)))
        /\ (~WholeParses /\ FenceParses)
            => parse_result = Parsed(JsonValue(FencedGroup(response_text, 1)))
        /\ (~WholeParses /\ ~FenceParses /\ ScanParses)
            => parse_result = Parsed(JsonValue(ScannedObject(response_text)))
        /\ (~WholeParses /\ ~FenceParses /\ ~ScanParses)
            => (parse_result.kind = "raw" /\ parse_result.raw_text = response_text)
        /\ parse_result.kind = "raw" => (~WholeParses /\ ~FenceParses /\ ~ScanParses)

\* the whole text is JSON although it holds a fenced block that is JSON too
C7_Witness ==
    /\ pc = "parsed"
    /\ WholeParses
    /\ FenceParses
    /\ parse_result = Parsed(JsonValue(response_text))
    /\ parse_result # Parsed(JsonValue(FencedGroup(response_text, 1)))

\* C8: a verdict object J in a fenced json block mixed with prose is parsed to the
\* same value as J given alone.
C8_FencedVerdictParsedAsAlone ==
    pc = "parsed" =>
        \A pre \in Prose, post \in Prose, gap \in Gaps, J \in JsonObjects :
            (pre \o post # <<>> /\ response_text = Embed(pre, <<JSON>>, gap, J, post))
                => parse_result = ParseClaudeResponse(J)

----------------------------------------------------------------------------
(* _check_exact_match.                                                      *)

\* a key classification that does not fold the case of the key
KeyClassCaseSensitive(key) ==
    LET key_lower == key
    IN IF Contains(<<"a", "d", "d", "r", "e", "s", "s">>, key_lower) \/ Contains(<<"s", "t", "r", "e", "e", "t">>, key_lower) THEN "address"
       ELSE IF Contains(<<"c", "i", "t", "y">>, key_lower) \/ Contains(<<"t", "o", "w", "n">>, key_lower) THEN "city"
       ELSE IF key_lower \in {<<"s", "t", "a", "t", "e">>, <<"s", "t">>} THEN "state"
       ELSE IF Contains(<<"z", "i", "p">>, key_lower) \/ Contains(<<"p", "o", "s", "t", "a", "l">>, key_lower) THEN "zip"
       ELSE "none"

\* the branch of the if/elif chain that a key of sample_record takes
KeyClass(key) ==
    LET key_lower == Lower(key)
    IN IF Contains(<<"a", "d", "d", "r", "e", "s", "s">>, key_lower) \/ Contains(<<"s", "t", "r", "e", "e", "t">>, key_lower) THEN "address"
       ELSE IF Contains(<<"c", "i", "t", "y">>, key_lower) \/ Contains(<<"t", "o", "w", "n">>, key_lower) THEN "city"
       ELSE IF key_lower \in {<<"s", "t", "a", "t", "e">>, <<"s", "t">>} THEN "state"
       ELSE IF Contains(<<"z", "i", "p">>, key_lower) \/ Contains(<<"p", "o", "s", "t", "a", "l">>, key_lower) THEN "zip"
       ELSE "none"

\* the first key of sample_record that takes the branch, None when no key does
SniffColumn(sample_record, class) ==
    LET keys == [i \in 1..Len(sample_record) |-> sample_record[i][1]]
        hits == {i \in 1..Len(keys) : KeyClass(keys[i]) = class}
    IN IF hits = {} THEN NoColumn
       ELSE keys[CHOOSE i \in hits : \A j \in hits : i <= j]

SniffColumns(sample_record) ==
    [address_col |-> SniffColumn(sample_record, "address"),
     city_col |-> SniffColumn(sample_record, "city"),
     state_col |-> SniffColumn(sample_record, "state"),
     zip_col |-> SniffColumn(sample_record, "zip")]

\* str(golden_address.get(key, '')).strip().lower()
GoldenField(v) == Lower(StripSpace(PyStr(v)))

\* str(internal_record.get(col, '')).strip().lower() if col else ''
InternalField(internal_record, col) ==
    IF col = NoColumn THEN <<>>
    ELSE Lower(StripSpace(PyStr(Get(internal_record, col))))

\* a comparison that leaves the zip out
AllFieldsMatchButZip(golden, internal_record, cols) ==
    /\ GoldenField(golden.address1) = InternalField(internal_record, cols.address_col)
    /\ GoldenField(golden.city) = InternalField(internal_record, cols.city_col)
    /\ GoldenField(golden.state) = InternalField(internal_record, cols.state_col)

\* golden_addr1 == internal_addr and golden_city == internal_city and ...
AllFieldsMatch(golden, internal_record, cols) ==
    /\ GoldenField(golden.address1) = InternalField(internal_record, cols.address_col)
    /\ GoldenField(golden.city) = InternalField(internal_record, cols.city_col)
    /\ GoldenField(golden.state) = InternalField(internal_record, cols.state_col)
    /\ GoldenField(golden.zipcode) = InternalField(internal_record, cols.zip_col)

\* for internal_record in internal_matches: the position of the record returned, 0 if none
RECURSIVE FirstExactMatch(_, _, _, _)
FirstExactMatch(golden, internal, cols, i) ==
    IF i > Len(internal) THEN 0
    ELSE IF AllFieldsMatch(golden, internal[i], cols) THEN i
    ELSE FirstExactMatch(golden, internal, cols, i + 1)

\* the dictionary returned: matched_record is the position of the record in
\* internal_matches, 0 when the dictionary has no matched_record key
CheckExactMatch(golden, internal) ==
    IF Len(internal) = 0
    THEN [called |-> TRUE, is_exact_match |-> FALSE, matched_record |-> 0]
    ELSE LET i == FirstExactMatch(golden, internal, SniffColumns(internal[1]), 1)
         IN [called |-> TRUE, is_exact_match |-> i # 0, matched_record |-> i]

(* Inputs of the verifier.  The golden record is 1 M / T / FL / 3; a record  *)
(* of the internal table holds, under each of its keys, the same value, a    *)
(* value that differs in case and surrounding whitespace, another value, the *)
(* empty string or None.                                                     *)

\* the field of the golden record whose data a column of the internal table holds
DataOf(key) ==
    LET k == Lower(key)
    IN IF k \in {<<"a", "d", "d", "r", "e", "s", "s">>, <<"s", "t", "r", "e", "e", "t">>, <<"c", "i", "t", "y", "_", "a", "d", "d", "r", "e", "s", "s">>} THEN "address"
       ELSE IF k \in {<<"c", "i", "t", "y">>, <<"t", "o", "w", "n">>} THEN "city"
       ELSE IF k \in {<<"s", "t", "a", "t", "e">>, <<"s", "t">>, <<"s", "t", "a", "t", "e", "_", "c", "o", "d", "e">>} THEN "state"
       ELSE IF k \in {<<"z", "i", "p">>, <<"p", "o", "s", "t", "a", "l">>} THEN "zip"
       ELSE IF k = <<"m", "a", "s", "t", "e", "r", "a", "d", "d", "r", "e", "s", "s">> THEN "master"
       ELSE "other"

\* what a column holds: the golden record's value, a value that differs from it in case
\* and surrounding whitespace, or another value
Values ==
    [same |->
        [address |-> StrValue(<<"1", " ", "M">>), city |-> StrValue(<<"T">>),
         state |-> StrValue(<<"F", "L">>), zip |-> StrValue(<<"3">>),
         master |-> StrValue(<<"1", " ", "M", ",", " ", "T", ",", " ", "F", "L", " ", "3">>), other |-> StrValue(<<"7">>)],
     variant |->
        [address |-> StrValue(<<" ", "1", " ", "m">>), city |-> StrValue(<<"t", "\n">>),
         state |-> StrValue(<<"f", "l">>), zip |-> StrValue(<<"\t", "3", " ">>),
         master |-> StrValue(<<"1", " ", "m", ",", " ", "t", ",", " ", "f", "l", " ", "3">>), other |-> StrValue(<<"7">>)],
     other |->
        [address |-> StrValue(<<"2", " ", "M">>), city |-> StrValue(<<"U">>),
         state |-> StrValue(<<"G", "A">>), zip |-> StrValue(<<"4">>),
         master |-> StrValue(<<"2", " ", "M", ",", " ", "U", ",", " ", "G", "A", " ", "4">>), other |-> StrValue(<<"8">>)]]

\* the kinds of record: what each field of the record holds
RecordKinds ==
    {[f \in {"address", "city", "state", "zip", "master", "other"} |-> "same"],
     [f \in {"address", "city", "state", "zip", "master", "other"} |-> "variant"],
     [f \in {"address", "city", "state", "zip", "master", "other"} |-> "other"]}
    \cup {[f \in {"address", "city", "state", "zip", "master", "other"} |->
              IF f = g THEN "other" ELSE "variant"] : g \in {"state", "zip"}}

SparseKinds ==
    {[f \in {"address", "city", "state", "zip", "master", "other"} |-> "variant"],
     [f \in {"address", "city", "state", "zip", "master", "other"} |-> "empty"],
     [f \in {"address", "city", "state", "zip", "master", "other"} |-> "none"],
     [f \in {"address", "city", "state", "zip", "master", "other"} |->
         IF f = "state" THEN "other" ELSE "variant"],
     [f \in {"address", "city", "state", "zip", "master", "other"} |->
         IF f \in {"city", "zip"} THEN "none" ELSE "same"]}

ValueOf(field, how) ==
    CASE how \in DOMAIN Values -> Values[how][field]
      [] how = "empty" -> StrValue(<<>>)
      [] how = "none" -> NoneValue

\* a row of the table whose columns are schema
Record(schema, kind) ==
    [i \in 1..Len(schema) |-> <<schema[i], ValueOf(DataOf(schema[i]), kind[DataOf(schema[i])])>>]

\* the orders in which four columns can be declared
Permutations4 ==
    {p \in [1..4 -> 1..4] : \A i, j \in 1..4 : p[i] = p[j] => i = j}

\* schemas that name the four fields by address/street, city/town, state/st, zip/postal
VocabularyNames ==
    {<<<<"a", "d", "d", "r", "e", "s", "s">>, <<"c", "i", "t", "y">>, <<"s", "t", "a", "t", "e">>, <<"z", "i", "p">>>>,
     <<<<"s", "t", "r", "e", "e", "t">>, <<"t", "o", "w", "n">>, <<"s", "t">>, <<"p", "o", "s", "t", "a", "l">>>>,
     <<<<"s", "t", "r", "e", "e", "t">>, <<"c", "i", "t", "y">>, <<"s", "t">>, <<"z", "i", "p">>>>,
     <<<<"A", "d", "d", "r", "e", "s", "s">>, <<"C", "i", "t", "y">>, <<"S", "t", "a", "t", "e">>, <<"Z", "i", "p">>>>,
     <<<<"S", "t", "r", "e", "e", "t">>, <<"T", "o", "w", "n">>, <<"S", "t">>, <<"P", "o", "s", "t", "a", "l">>>>,
     <<<<"S", "t", "r", "e", "e", "t">>, <<"C", "i", "t", "y">>, <<"S", "t">>, <<"Z", "i", "p">>>>,
     <<<<"A", "D", "D", "R", "E", "S", "S">>, <<"C", "I", "T", "Y">>, <<"S", "T", "A", "T", "E">>, <<"Z", "I", "P">>>>,
     <<<<"S", "T", "R", "E", "E", "T">>, <<"T", "O", "W", "N">>, <<"S", "T">>, <<"P", "O", "S", "T", "A", "L">>>>,
     <<<<"S", "T", "R", "E", "E", "T">>, <<"C", "I", "T", "Y">>, <<"S", "T">>, <<"Z", "I", "P">>>>}

VocabularySchemas ==
    {[i \in 1..4 |-> names[p[i]]] : names \in VocabularyNames, p \in Permutations4}

\* schemas with columns outside that vocabulary, or without some of the four fields
OtherSchemas ==
    {<<<<"i", "d">>, <<"S", "t", "r", "e", "e", "t">>, <<"S", "t">>>>,
     <<<<"M", "a", "s", "t", "e", "r", "A", "d", "d", "r", "e", "s", "s">>, <<"S", "t", "r", "e", "e", "t">>, <<"C", "i", "t", "y">>, <<"S", "t", "a", "t", "e">>, <<"Z", "i", "p">>>>,
     <<<<"A", "d", "d", "r", "e", "s", "s">>, <<"S", "t", "a", "t", "e", "_", "C", "o", "d", "e">>, <<"C", "i", "t", "y">>, <<"Z", "i", "p">>>>,
     <<<<"C", "i", "t", "y", "_", "A", "d", "d", "r", "e", "s", "s">>, <<"S", "t", "a", "t", "e">>, <<"Z", "i", "p">>>>,
     <<<<"i", "d">>>>}

FullGolden ==
    [address1 |-> Values.same.address, city |-> Values.same.city, state |-> Values.same.state,
     zipcode |-> Values.same.zip]

\* golden records without some keys, with None or with empty strings
SparseGoldens ==
    {FullGolden,
     [FullGolden EXCEPT !.city = Absent, !.zipcode = Absent],
     [FullGolden EXCEPT !.city = NoneValue, !.zipcode = NoneValue],
     [FullGolden EXCEPT !.city = StrValue(<<>>), !.zipcode = StrValue(<<>>)],
     [address1 |-> Absent, city |-> Absent, state |-> Absent, zipcode |-> Absent]}

\* the lists of at most n rows of one table
RecordLists(schema, kinds, n) ==
    UNION {[1..m -> {Record(schema, k) : k \in kinds}] : m \in 0..n}

InitExact ==
    /\ pc = "verify_start"
    /\ \/ /\ golden_address = FullGolden
          /\ \E schema \in VocabularySchemas :
                internal_matches \in RecordLists(schema, RecordKinds, MaxRecords)
       \/ /\ golden_address \in SparseGoldens
          /\ \E schema \in OtherSchemas :
                internal_matches \in RecordLists(schema, SparseKinds, MaxRecords)
    /\ exact_match = NoExactMatch
    /\ golden_source_matches = <<>>
    /\ total_matches = 0
    /\ all_matches = <<>>
    /\ args = NoArgs
    /\ requests = 0
    /\ call_outcome = NoOutcome
    /\ parsed_response = NoResponse
    /\ claude_review = NoVerdict
    /\ ai_analysis = <<>>
    /\ result = NoResult
    /\ response_text = <<>>
    /\ parse_result = NoParse
    /\ IdleRetriever
    /\ InTry

\* exact_match = self._check_exact_match(golden_address, internal_matches)
CheckExact ==
    /\ pc = "verify_start"
    /\ exact_match' = CheckExactMatch(golden_address, internal_matches)
    /\ pc' = "verified"
    /\ UNCHANGED golden_address
    /\ UNCHANGED <<pipeline_vars, parser_vars, retriever_vars, main_vars>>

SpecExact == InitExact /\ [][CheckExact]_vars

\* the text a field of a record is compared as: the empty string when its column was
\* not sniffed or the record lacks the key
FieldText(record, col) ==
    IF col = NoColumn \/ Get(record, col) = Absent THEN <<>>
    ELSE Lower(StripSpace(PyStr(Get(record, col))))

GoldenText(v) == IF v = Absent THEN <<>> ELSE Lower(StripSpace(PyStr(v)))

\* the positions of the records whose four fields equal the golden record's
ExactPositions ==
    IF internal_matches = <<>> THEN {}
    ELSE LET cols == SniffColumns(internal_matches[1])
         IN {i \in 1..Len(internal_matches) :
                /\ FieldText(internal_matches[i], cols.address_col)
                       = GoldenText(golden_address.address1)
                /\ FieldText(internal_matches[i], cols.city_col)
                       = GoldenText(golden_address.city)
                /\ FieldText(internal_matches[i], cols.state_col)
                       = GoldenText(golden_address.state)
                /\ FieldText(internal_matches[i], cols.zip_col)
                       = GoldenText(golden_address.zipcode)}

\* C13: _check_exact_match returns is_exact_match = true with matched_record r exactly
\* when r is the first record, in list order, whose address, city, state and zip
\* fields equal the golden record's after trimming and case folding, an absent or
\* unsniffed field comparing as the empty string; it returns is_exact_match = false
\* when there is no such record or the list is empty.
C13_FirstExactRecordWins ==
    pc = "verified" =>
        IF ExactPositions = {}
        THEN ~exact_match.is_exact_match /\ exact_match.matched_record = 0
        ELSE /\ exact_match.is_exact_match
             /\ exact_match.matched_record \in ExactPositions
             /\ \A i \in ExactPositions : exact_match.matched_record <= i

\* the second of two records is returned, and its city and zip are equal to the
\* golden record's only because both sides are empty
C13_Witness ==
    /\ pc = "verified"
    /\ exact_match.is_exact_match
    /\ exact_match.matched_record = 2
    /\ golden_address.city = Absent
    /\ SniffColumns(internal_matches[1]).city_col = NoColumn
    /\ SniffColumns(internal_matches[1]).zip_col = NoColumn

\* the keys of a record name the four fields, each by one name of the vocabulary
NamesTheFourFields(record) ==
    /\ Len(record) = 4
    /\ \A f \in {"address", "city", "state", "zip"} :
          \E i \in 1..4 :
              /\ DataOf(record[i][1]) = f
              /\ Lower(record[i][1]) \in
                    {<<"a", "d", "d", "r", "e", "s", "s">>, <<"s", "t", "r", "e", "e", "t">>, <<"c", "i", "t", "y">>, <<"t", "o", "w", "n">>, <<"s", "t", "a", "t", "e">>, <<"s", "t">>,
                     <<"z", "i", "p">>, <<"p", "o", "s", "t", "a", "l">>}

\* the value a record holds for a field of the golden record
ValueFor(record, f) == record[CHOOSE i \in 1..Len(record) : DataOf(record[i][1]) = f][2]

\* two strings are equal up to case and surrounding whitespace
EqualUpToCaseAndSpace(v, w) ==
    /\ v.t = "str"
    /\ w.t = "str"
    /\ Lower(StripSpace(v.s)) = Lower(StripSpace(w.s))

\* the positions of the candidates of C14
NamedAndEqual ==
    {i \in 1..Len(internal_matches) :
        /\ NamesTheFourFields(internal_matches[i])
        /\ EqualUpToCaseAndSpace(ValueFor(internal_matches[i], "address"),
                                 golden_address.address1)
        /\ EqualUpToCaseAndSpace(ValueFor(internal_matches[i], "city"), golden_address.city)
        /\ EqualUpToCaseAndSpace(ValueFor(internal_matches[i], "state"),
                                 golden_address.state)
        /\ EqualUpToCaseAndSpace(ValueFor(internal_matches[i], "zip"),
                                 golden_address.zipcode)}

\* C14: whatever the casing and the order of the keys address/street, city/town,
\* state/st, zip/postal of the internal table, a candidate whose four values equal
\* the golden record's up to case and surrounding whitespace makes _check_exact_match
\* return is_exact_match = true with that candidate, the first one when there are
\* several.
C14_IndependentOfColumnNaming ==
    pc = "verified" =>
        (NamedAndEqual # {} =>
            /\ exact_match.is_exact_match
            /\ exact_match.matched_record \in NamedAndEqual
            /\ \A i \in NamedAndEqual : exact_match.matched_record <= i)

\* Street / St in another casing than lower case, declared after the zip, and values
\* that differ from the golden record's in case
C14_Witness ==
    /\ pc = "verified"
    /\ Len(internal_matches) = 2
    /\ [i \in 1..4 |-> internal_matches[2][i][1]]
           = <<<<"Z", "I", "P">>, <<"S", "T">>, <<"C", "I", "T", "Y">>, <<"S", "T", "R", "E", "E", "T">>>>
    /\ ValueFor(internal_matches[2], "state") = Values.variant.state
    /\ NamedAndEqual = {2}
    /\ exact_match.is_exact_match
    /\ exact_match.matched_record = 2

----------------------------------------------------------------------------
(* _get_pinellas_column_mapping.                                            *)

\* columns_lower = {col.lower(): col for col in columns}: the (lower, actual) pairs in
\* the order of first insertion, a later column of the same lower-case name
\* replacing the value
ColumnsLower(cols) ==
    LET firsts == {i \in 1..Len(cols) : \A j \in 1..(i - 1) : Lower(cols[j]) # Lower(cols[i])}
        last(i) == CHOOSE j \in 1..Len(cols) :
                      /\ Lower(cols[j]) = Lower(cols[i])
                      /\ \A k \in (j + 1)..Len(cols) : Lower(cols[k]) # Lower(cols[i])
        RECURSIVE build(_)
        build(i) == IF i > Len(cols) THEN <<>>
                    ELSE IF i \in firsts
                         THEN <<<<Lower(cols[i]), cols[last(i)]>>>> \o build(i + 1)
                         ELSE build(i + 1)
    IN build(1)

address_patterns ==
    <<<<"a", "d", "d", "r", "e", "s", "s">>, <<"s", "t", "r", "e", "e", "t">>, <<"a", "d", "d", "r">>, <<"s", "t", "r", "e", "e", "t", "_", "a", "d", "d", "r", "e", "s", "s">>, <<"a", "d", "d", "r", "e", "s", "s", "1">>, <<"a", "d", "d", "r", "e", "s", "s", "_", "1">>>>

city_patterns == <<<<"c", "i", "t", "y">>, <<"m", "a", "i", "l", "i", "n", "g", "_", "c", "i", "t", "y">>, <<"m", "a", "i", "l", "_", "c", "i", "t", "y">>, <<"t", "o", "w", "n">>>>

state_patterns == <<<<"s", "t", "a", "t", "e">>, <<"s", "t">>, <<"p", "r", "o", "v", "i", "n", "c", "e">>>>

zip_patterns ==
    <<<<"z", "i", "p">>, <<"z", "i", "p", "c", "o", "d", "e">>, <<"z", "i", "p", "_", "c", "o", "d", "e">>, <<"p", "o", "s", "t", "a", "l">>, <<"p", "o", "s", "t", "a", "l", "c", "o", "d", "e">>, <<"p", "o", "s", "t", "a", "l", "_", "c", "o", "d", "e">>>>

\* if col_lower == pattern or (pattern in col_lower and 'estate' not in col_lower)
StatePatternIn(pattern, col_lower) ==
    \/ col_lower = pattern
    \/ (Contains(pattern, col_lower) /\ ~Contains(<<"e", "s", "t", "a", "t", "e">>, col_lower))

\* for pattern in patterns: for col_lower, col_actual in columns_lower.items(): the
\* column of the first pattern some column satisfies, and of the first such column;
\* the state field has its own test
FirstBinding(patterns, columns_lower, field) ==
    LET Matches(pattern, col_lower) ==
            IF field = "state" THEN StatePatternIn(pattern, col_lower)
            ELSE Contains(pattern, col_lower)
        hits == {h \in (1..Len(patterns)) \X (1..Len(columns_lower)) :
                    Matches(patterns[h[1]], columns_lower[h[2]][1])}
    IN IF hits = {} THEN NoColumn
       ELSE LET first == CHOOSE h \in hits :
                            \A g \in hits : h[1] < g[1] \/ (h[1] = g[1] /\ h[2] <= g[2])
            IN columns_lower[first[2]][2]

GetPinellasColumnMapping(cols) ==
    LET columns_lower == ColumnsLower(cols)
    IN [address |-> FirstBinding(address_patterns, columns_lower, "address"),
        city |-> FirstBinding(city_patterns, columns_lower, "city"),
        state |-> FirstBinding(state_patterns, columns_lower, "state"),
        zip |-> FirstBinding(zip_patterns, columns_lower, "zip")]

----------------------------------------------------------------------------
(* The address decomposition of get_pinellas_matches.                        *)

street_types ==
    {<<"s", "t", "r", "e", "e", "t">>, <<"s", "t">>, <<"a", "v", "e", "n", "u", "e">>, <<"a", "v", "e">>, <<"r", "o", "a", "d">>, <<"r", "d">>, <<"d", "r", "i", "v", "e">>, <<"d", "r">>,
     <<"l", "a", "n", "e">>, <<"l", "n">>, <<"c", "o", "u", "r", "t">>, <<"c", "t">>, <<"c", "i", "r", "c", "l", "e">>, <<"c", "i", "r">>, <<"b", "o", "u", "l", "e", "v", "a", "r", "d">>, <<"b", "l", "v", "d">>,
     <<"w", "a", "y">>, <<"p", "l", "a", "c", "e">>, <<"p", "l">>, <<"t", "e", "r", "r", "a", "c", "e">>, <<"t", "e", "r">>, <<"p", "a", "r", "k", "w", "a", "y">>, <<"p", "k", "w", "y">>,
     <<"h", "i", "g", "h", "w", "a", "y">>, <<"h", "w", "y">>, <<"t", "r", "a", "i", "l">>, <<"t", "r", "l">>, <<"p", "l", "a", "z", "a">>, <<"p", "l", "z">>, <<"a", "l", "l", "e", "y">>, <<"a", "l", "y">>,
     <<"l", "o", "o", "p">>, <<"s", "q", "u", "a", "r", "e">>, <<"s", "q">>, <<"c", "r", "o", "s", "s", "i", "n", "g">>, <<"x", "i", "n", "g">>, <<"r", "u", "n">>, <<"p", "o", "i", "n", "t">>, <<"p", "t">>,
     <<"p", "i", "k", "e">>, <<"r", "o", "w">>, <<"p", "a", "t", "h">>, <<"w", "a", "l", "k">>, <<"c", "o", "m", "m", "o", "n", "s">>, <<"g", "r", "e", "e", "n">>, <<"c", "r", "e", "s", "c", "e", "n", "t">>,
     <<"c", "r", "e", "s">>}

Digits == {"0", "1", "2", "3", "4", "5", "6", "7", "8", "9"}

\* the length of the longest prefix of s whose characters are all in chars
RECURSIVE PrefixLen(_, _)
PrefixLen(s, chars) ==
    IF s # <<>> /\ Head(s) \in chars THEN 1 + PrefixLen(Tail(s), chars) ELSE 0

Drop(s, n) == SubSeq(s, n + 1, Len(s))

\* str.split(): the maximal runs of characters that are not whitespace
RECURSIVE Split(_)
Split(s) ==
    LET t == LStrip(s)
        n == PrefixLen(t, {c \in Range(t) : c \notin Whitespace})
    IN IF t = <<>> THEN <<>> ELSE <<SubSeq(t, 1, n)>> \o Split(Drop(t, n))

\* sep.join(parts)
RECURSIVE Join(_, _)
Join(parts, sep) ==
    IF parts = <<>> THEN <<>>
    ELSE IF Len(parts) = 1 THEN parts[1]
    ELSE parts[1] \o sep \o Join(Tail(parts), sep)

\* str.rstrip('.')
RECURSIVE RStripPeriods(_)
RStripPeriods(s) ==
    IF s # <<>> /\ s[Len(s)] = "." THEN RStripPeriods(SubSeq(s, 1, Len(s) - 1)) ELSE s

\* str.isdigit()
IsDigit(s) == s # <<>> /\ \A i \in 1..Len(s) : s[i] \in Digits

\* a decomposition that takes the whole line as the street name when no number leads it
DecomposeWithoutNumber(address1) ==
    LET s == StripSpace(address1)
        d == PrefixLen(s, Digits)
        w == PrefixLen(Drop(s, d), Whitespace)
        rest == Drop(s, d + w)
    IN IF d > 0 /\ w > 0 /\ rest # <<>> /\ "\n" \notin Range(rest)
       THEN [decomposed |-> TRUE, street_number |-> SubSeq(s, 1, d),
             street_name_full |-> rest]
       ELSE [decomposed |-> TRUE, street_number |-> <<>>, street_name_full |-> s]

\* match = re.match(r'^(\d+)\s+(.+)$', str(address1).strip()), and when it fails
\* parts = str(address1).strip().split(None, 1) with parts[0].isdigit()
Decompose(address1) ==
    LET s == StripSpace(address1)
        d == PrefixLen(s, Digits)
        w == PrefixLen(Drop(s, d), Whitespace)
        rest == Drop(s, d + w)
        first == PrefixLen(s, {c \in Range(s) : c \notin Whitespace})
        gap == PrefixLen(Drop(s, first), Whitespace)
        remainder == Drop(s, first + gap)
    IN IF d > 0 /\ w > 0 /\ rest # <<>> /\ "\n" \notin Range(rest)
       THEN [decomposed |-> TRUE, street_number |-> SubSeq(s, 1, d),
             street_name_full |-> rest]
       ELSE IF remainder # <<>> /\ IsDigit(SubSeq(s, 1, first))
       THEN [decomposed |-> TRUE, street_number |-> SubSeq(s, 1, first),
             street_name_full |-> remainder]
       ELSE [decomposed |-> FALSE, street_number |-> <<>>, street_name_full |-> <<>>]

\* a core that loses every trailing street type
RECURSIVE StreetNameCoreStripsEveryType(_)
StreetNameCoreStripsEveryType(street_name_full) ==
    LET street_name_parts == Split(StripSpace(street_name_full))
        last_word == RStripPeriods(Lower(street_name_parts[Len(street_name_parts)]))
    IN IF Len(street_name_parts) > 1
       THEN IF last_word \in street_types
            THEN StreetNameCoreStripsEveryType(
                     Join(SubSeq(street_name_parts, 1, Len(street_name_parts) - 1), <<" ">>))
            ELSE street_name_full
       ELSE street_name_full

\* street_name_parts = street_name_full.strip().split() ... street_name_core
StreetNameCore(street_name_full) ==
    LET street_name_parts == Split(StripSpace(street_name_full))
        last_word == RStripPeriods(Lower(street_name_parts[Len(street_name_parts)]))
    IN IF Len(street_name_parts) > 1
       THEN IF last_word \in street_types
            THEN Join(SubSeq(street_name_parts, 1, Len(street_name_parts) - 1), <<" ">>)
            ELSE street_name_full
       ELSE street_name_full

----------------------------------------------------------------------------
(* get_pinellas_matches and get_filtered_addresses.                          *)

\* what the database does with the statements of one call: whether connection.cursor()
\* or one of the execute calls raises, and
\* how many rows the row-selecting statement fetches
DbOutcomes ==
    {[raises |-> "cursor", rows |-> 0], [raises |-> "columns", rows |-> 0],
     [raises |-> "select", rows |-> 0]}
    \cup {[raises |-> "none", rows |-> n] : n \in 0..MaxRows}

\* if not x: None, '' and an absent key (whose default is '') are falsy
Falsy(v) == v.t # "str" \/ v.s = <<>>

\* a check that requires the state column only
RequiredColumnsBoundStateOnly(mapping) == mapping.state # NoColumn

\* if not column_mapping['address']: return [] / if not column_mapping['state']: return []
RequiredColumnsBound(mapping) ==
    /\ mapping.address # NoColumn
    /\ mapping.state # NoColumn

ColumnsQuery == [kind |-> "columns", table |-> "pinellas", cols |-> {}, params |-> <<>>]

\* SELECT * FROM pinellas WHERE address ILIKE number% AND address ILIKE %core% AND
\* state ILIKE state
PinellasQuery(mapping, street_number, street_name_core, state) ==
    [kind |-> "select", table |-> "pinellas", cols |-> {mapping.address, mapping.state},
     params |-> <<street_number \o <<"%">>, <<"%">> \o street_name_core \o <<"%">>, state>>]

Returned(method, raised, rows) == [method |-> method, raised |-> raised, rows |-> rows]

\* cursor = self.connection.cursor()
OpenCursor(db) == IF db.raises = "cursor" THEN NoCursor ELSE "open"

\* a method that closes its cursor only after the rows were fetched
FinallyAfterFetchOnly(cur, statements) ==
    IF cur = "open" /\ \E i \in 1..Len(statements) : statements[i].kind = "select"
    THEN "closed" ELSE cur

\* finally: if cursor: cursor.close()
Finally(cur, statements) == IF cur = "open" THEN "closed" ELSE cur

\* the whole method: what it leaves in column_mapping, street and queries, and what
\* it returns; every exception is caught and turned into []
PinellasMatches(golden, cols, db) ==
    LET m == "get_pinellas_matches"
        mapping == GetPinellasColumnMapping(cols)
        address1 == golden.address1
        state == golden.state
        dec == Decompose(PyStr(address1))
        sel == PinellasQuery(mapping, dec.street_number,
                             StreetNameCore(dec.street_name_full), state.s)
    IN IF db.raises = "cursor"
       THEN [column_mapping |-> NoMapping, street |-> NoStreet,
             queries |-> <<>>, returned |-> Returned(m, FALSE, 0)]
       ELSE IF db.raises = "columns"
       THEN [column_mapping |-> NoMapping, street |-> NoStreet,
             queries |-> <<ColumnsQuery>>, returned |-> Returned(m, FALSE, 0)]
       ELSE IF ~RequiredColumnsBound(mapping)
       THEN [column_mapping |-> mapping, street |-> NoStreet,
             queries |-> <<ColumnsQuery>>, returned |-> Returned(m, FALSE, 0)]
       ELSE IF Falsy(address1) \/ Falsy(state)
       THEN [column_mapping |-> mapping, street |-> NoStreet,
             queries |-> <<ColumnsQuery>>, returned |-> Returned(m, FALSE, 0)]
       ELSE IF ~dec.decomposed
       THEN [column_mapping |-> mapping, street |-> NoStreet,
             queries |-> <<ColumnsQuery>>, returned |-> Returned(m, FALSE, 0)]
       ELSE [column_mapping |-> mapping,
             street |-> [street_number |-> dec.street_number,
                         street_name_full |-> dec.street_name_full,
                         street_name_core |-> StreetNameCore(dec.street_name_full)],
             queries |-> <<ColumnsQuery, sel>>,
             returned |-> Returned(m, FALSE, IF db.raises = "select" THEN 0 ELSE db.rows)]

target_columns == {"address1", "address2", "Mailing City", "state", "zipcode"}

\* the column each criterion is filtered on
FilterColumn ==
    [state |-> "state", city |-> "Mailing City", street_name |-> "address1",
     street_type |-> "address1"]

\* SELECT target_columns FROM golden WHERE ... LIMIT limit
FilteredQuery(criteria) ==
    [kind |-> "select", table |-> "golden",
     cols |-> target_columns \cup {FilterColumn[c] : c \in criteria},
     params |-> <<>>]

\* cursor.execute raises on a statement that names a column the table does not have
ExecuteRaises(query, table_columns, db) ==
    \/ db.raises = "select"
    \/ ~(query.cols \subseteq table_columns)

\* the whole method: except Exception as e: raise ValueError(...)
FilteredAddresses(criteria, table_columns, db) ==
    LET m == "get_filtered_addresses"
        query == FilteredQuery(criteria)
    IN IF db.raises = "cursor"
       THEN [queries |-> <<>>, returned |-> Returned(m, TRUE, 0)]
       ELSE IF ExecuteRaises(query, table_columns, db)
       THEN [queries |-> <<query>>, returned |-> Returned(m, TRUE, 0)]
       ELSE [queries |-> <<query>>, returned |-> Returned(m, FALSE, db.rows)]

(* Inputs of the retriever.                                                  *)

NameChoices ==
    [address : {<<"a", "d", "d", "r", "e", "s", "s">>, <<"S", "t", "r", "e", "e", "t">>, <<"A", "D", "D", "R">>, <<"s", "t", "r", "e", "e", "t", "_", "a", "d", "d", "r", "e", "s", "s">>},
     city : {<<"c", "i", "t", "y">>, <<"T", "o", "w", "n">>},
     state : {<<"s", "t", "a", "t", "e">>, <<"S", "T">>, <<"P", "r", "o", "v", "i", "n", "c", "e">>},
     zip : {<<"z", "i", "p">>, <<"P", "o", "s", "t", "a", "l">>, <<"z", "i", "p", "_", "c", "o", "d", "e">>}]

\* the tables with one address, one city, one state and one zip column, in any order
FourColumnLists ==
    {[i \in 1..4 |-> <<n.address, n.city, n.state, n.zip>>[p[i]]] :
        n \in NameChoices, p \in Permutations4}

\* tables that lack some of the four columns, or have columns of other names
OtherColumnLists ==
    {<<>>,
     <<<<"i", "d">>>>,
     <<<<"i", "d">>, <<"c", "i", "t", "y">>, <<"s", "t", "a", "t", "e">>, <<"z", "i", "p">>>>,
     <<<<"i", "d">>, <<"n", "a", "m", "e">>, <<"c", "i", "t", "y">>, <<"z", "i", "p">>>>,
     <<<<"a", "d", "d", "r", "e", "s", "s">>, <<"c", "i", "t", "y">>, <<"z", "i", "p">>>>,
     <<<<"a", "d", "d", "r">>, <<"r", "e", "a", "l", "_", "e", "s", "t", "a", "t", "e">>, <<"c", "i", "t", "y">>>>,
     <<<<"S", "t", "r", "e", "e", "t">>, <<"T", "o", "w", "n">>, <<"P", "o", "s", "t", "a", "l">>>>,
     <<<<"i", "d">>, <<"s", "t", "a", "t", "u", "s">>, <<"a", "d", "d", "r", "e", "s", "s">>, <<"c", "i", "t", "y">>, <<"s", "t">>, <<"z", "i", "p">>>>,
     <<<<"S", "t", "a", "t", "e">>, <<"S", "T", "A", "T", "E">>, <<"A", "d", "d", "r", "e", "s", "s">>>>,
     <<<<"M", "a", "s", "t", "e", "r", "A", "d", "d", "r", "e", "s", "s">>, <<"M", "a", "i", "l", "i", "n", "g", " ", "C", "i", "t", "y">>, <<"S", "t", "a", "t", "e">>, <<"Z", "i", "p", "C", "o", "d", "e">>>>}

PlainColumns == <<<<"a", "d", "d", "r", "e", "s", "s">>, <<"c", "i", "t", "y">>, <<"s", "t", "a", "t", "e">>, <<"z", "i", "p">>>>

Address(address1, state) ==
    [address1 |-> address1, city |-> Values.same.city, state |-> state,
     zipcode |-> Values.same.zip]

Words == {<<"O", "a", "k">>, <<"L", "n">>, <<"L", "N", ".">>, <<"s", "t", ".", ".">>}

\* address lines: a leading token or none, a gap, and at most MaxWords words
AddressLines ==
    {lead \o gap \o Join(words, sep) :
        lead \in {<<>>, <<"1", "2">>, <<"1", "a">>},
        gap \in {<<>>, <<" ">>, <<"\t", " ">>},
        words \in UNION {[1..n -> Words] : n \in 0..MaxWords},
        sep \in {<<" ">>, <<" ", " ">>, <<"\n">>}}
    \cup {<<"1", "2", "3", " ", "O", "a", "k", " ", "L", "n">>,
          <<"4", "5", "6", " ", "G", "r", "a", "n", "d", " ",
            "C", "o", "n", "c", "o", "u", "r", "s", "e">>,
          <<"7", " ", "L", "n">>, <<" ", "1", "2", " ">>, <<>>}

InitRetrieve ==
    /\ pc = "retrieve_start"
    /\ \/ /\ columns \in FourColumnLists
          /\ golden_address = Address(StrValue(<<"1", "2", "3", " ", "O", "a", "k", " ", "L", "n">>), StrValue(<<"F", "L">>))
          /\ golden_columns = target_columns
          /\ search_criteria = {}
       \/ /\ columns \in OtherColumnLists \cup {PlainColumns}
          /\ golden_address \in
                {Address(StrValue(<<"1", "2", "3", " ", "O", "a", "k", " ", "L", "n">>), s) : s \in {StrValue(<<"F", "L">>), StrValue(<<>>), NoneValue, Absent}}
          /\ golden_columns = target_columns
          /\ search_criteria = {}
       \/ /\ columns = PlainColumns
          /\ golden_address \in
                {Address(StrValue(line), StrValue(<<"F", "L">>)) : line \in AddressLines}
                \cup {Address(NoneValue, StrValue(<<"F", "L">>)), Address(Absent, StrValue(<<"F", "L">>))}
          /\ golden_columns = target_columns
          /\ search_criteria = {}
       \/ /\ columns \in {PlainColumns, <<<<"i", "d">>, <<"c", "i", "t", "y">>>>}
          /\ golden_address = Address(StrValue(<<"1", "2", "3", " ", "O", "a", "k", " ", "L", "n">>), StrValue(<<"F", "L">>))
          /\ golden_columns \in SUBSET target_columns
          /\ search_criteria \in SUBSET DOMAIN FilterColumn
    /\ column_mapping = NoMapping
    /\ street = NoStreet
    /\ queries = <<>>
    /\ returned = NoReturn
    /\ cursor = NoCursor
    /\ InTry
    /\ exact_match = NoExactMatch
    /\ golden_source_matches = <<>>
    /\ internal_matches = <<>>
    /\ total_matches = 0
    /\ all_matches = <<>>
    /\ args = NoArgs
    /\ requests = 0
    /\ call_outcome = NoOutcome
    /\ parsed_response = NoResponse
    /\ claude_review = NoVerdict
    /\ ai_analysis = <<>>
    /\ result = NoResult
    /\ response_text = <<>>
    /\ parse_result = NoParse

\* matches = self.get_pinellas_matches(golden_address)
GetPinellasMatches ==
    /\ pc = "retrieve_start"
    /\ \E db \in DbOutcomes :
          LET r == PinellasMatches(golden_address, columns, db)
          IN /\ column_mapping' = r.column_mapping
             /\ street' = r.street
             /\ queries' = r.queries
             /\ returned' = r.returned
             /\ cursor' = Finally(OpenCursor(db), r.queries)
    /\ pc' = "retrieved_pinellas"
    /\ UNCHANGED <<columns, golden_columns, search_criteria>>
    /\ UNCHANGED <<pipeline_vars, parser_vars, verifier_vars, main_vars>>

\* addresses = self.get_filtered_addresses(search_criteria)
GetFilteredAddresses ==
    /\ pc = "retrieve_start"
    /\ \E db \in DbOutcomes :
          LET r == FilteredAddresses(search_criteria, golden_columns, db)
          IN /\ queries' = r.queries
             /\ returned' = r.returned
             /\ cursor' = Finally(OpenCursor(db), r.queries)
    /\ pc' = "retrieved_filtered"
    /\ UNCHANGED <<columns, golden_columns, search_criteria, column_mapping, street>>
    /\ UNCHANGED <<pipeline_vars, parser_vars, verifier_vars, main_vars>>

NextRetrieve ==
    \/ GetPinellasMatches
    \/ GetFilteredAddresses

SpecRetrieve == InitRetrieve /\ [][NextRetrieve]_vars

----------------------------------------------------------------------------
(* Properties of the schema mapper, the decomposer and the retrieval paths. *)

\* the columns named as one of the patterns of a field, in any casing
NamedLike(patterns) ==
    {i \in 1..Len(columns) : Lower(columns[i]) \in Range(patterns)}

\* exactly one address-like, one city-like, one state-like and one zip-like column
OneColumnOfEach ==
    /\ Cardinality(NamedLike(address_patterns)) = 1
    /\ Cardinality(NamedLike(city_patterns)) = 1
    /\ Cardinality(NamedLike(state_patterns)) = 1
    /\ Cardinality(NamedLike(zip_patterns)) = 1

TheColumn(patterns) == columns[CHOOSE i \in NamedLike(patterns) : TRUE]

\* the mapper has run
Mapped == pc = "retrieved_pinellas" /\ column_mapping # NoMapping

\* C15: for every column list with exactly one address-like, one city-like, one
\* state-like and one zip-like column, in any casing and order, the mapping binds
\* address, city, state and zip each to the corresponding column.
C15_OneOfEachIsBoundCorrectly ==
    (Mapped /\ OneColumnOfEach) =>
        /\ column_mapping.address = TheColumn(address_patterns)
        /\ column_mapping.city = TheColumn(city_patterns)
        /\ column_mapping.state = TheColumn(state_patterns)
        /\ column_mapping.zip = TheColumn(zip_patterns)

\* C16: the mapping never binds two different canonical fields to the same column.
C16_NoColumnBoundTwice ==
    Mapped =>
        \A f, g \in {"address", "city", "state", "zip"} :
            (f # g /\ column_mapping[f] # NoColumn) => column_mapping[f] # column_mapping[g]

PinellasReturnedEmpty == returned = Returned("get_pinellas_matches", FALSE, 0)

NoRowSelect == \A i \in 1..Len(queries) : queries[i].kind # "select"

\* no column of the table holds one of the address patterns
NoAddressColumn ==
    \A i \in 1..Len(columns) : \A p \in 1..Len(address_patterns) :
        ~Contains(address_patterns[p], Lower(columns[i]))

\* C17: when the table has no recognizable address column the mapping leaves address
\* unbound and get_pinellas_matches returns an empty list without raising and without
\* a row-selecting statement; the same holds when the state column is unbound.
C17_UnboundColumnGivesEmptyList ==
    pc = "retrieved_pinellas" =>
        /\ NoAddressColumn =>
              (column_mapping.address = NoColumn /\ PinellasReturnedEmpty /\ NoRowSelect)
        /\ column_mapping.state = NoColumn => (PinellasReturnedEmpty /\ NoRowSelect)

\* a table with a state column and no address column, asked about a well-formed address
C17_Witness ==
    /\ Mapped
    /\ NoAddressColumn
    /\ column_mapping.address = NoColumn
    /\ column_mapping.state # NoColumn
    /\ ~Falsy(golden_address.address1)
    /\ ~Falsy(golden_address.state)
    /\ queries = <<ColumnsQuery>>
    /\ PinellasReturnedEmpty

\* C18: get_filtered_addresses and get_pinellas_matches both return an empty result
\* rather than raising when a column they filter on cannot be resolved in the table.
C18_BothPathsDegradeGracefully ==
    /\ (pc = "retrieved_filtered"
            /\ \E c \in search_criteria : FilterColumn[c] \notin golden_columns)
        => returned = Returned("get_filtered_addresses", FALSE, 0)
    /\ (pc = "retrieved_pinellas" /\ ~RequiredColumnsBound(column_mapping))
        => PinellasReturnedEmpty

\* the token is a word of the street-type vocabulary, in any casing, with or without
\* trailing periods
IsStreetType(token) ==
    \E w \in street_types : \E n \in 0..Len(token) :
        Lower(token) = w \o [i \in 1..n |-> "."]

HasLeadingNumber(v) ==
    /\ v.t = "str"
    /\ Len(Split(v.s)) >= 2
    /\ IsDigit(Split(v.s)[1])

\* C20: whenever the golden address line has no leading all-digit token followed by
\* whitespace and a remainder, get_pinellas_matches returns an empty list, raises
\* nothing and never executes the row-selecting statement.
C20_DecompositionFailureIsNotFatal ==
    (pc = "retrieved_pinellas" /\ ~HasLeadingNumber(golden_address.address1)) =>
        (PinellasReturnedEmpty /\ NoRowSelect)

\* a line of several tokens whose first is not a number, against a table whose
\* address and state columns are bound
C20_Witness ==
    /\ pc = "retrieved_pinellas"
    /\ RequiredColumnsBound(column_mapping)
    /\ golden_address.address1.t = "str"
    /\ Len(Split(golden_address.address1.s)) >= 2
    /\ ~HasLeadingNumber(golden_address.address1)
    /\ ~Falsy(golden_address.state)
    /\ queries = <<ColumnsQuery>>
    /\ PinellasReturnedEmpty


\* the early empty returns of get_pinellas_matches: no row-selecting statement was sent
EarlyEmptyReturn ==
    /\ returned.method = "get_pinellas_matches"
    /\ queries = <<ColumnsQuery>>
    /\ returned.rows = 0

\* C26: every cursor get_filtered_addresses or get_pinellas_matches opened is closed
\* by the time the call has returned or raised, whichever way it left: after the rows
\* were fetched, by an early empty return, or by an exception of a statement; a call
\* whose connection.cursor() raised has opened none
C26_EveryCursorIsClosed ==
    returned.method # "none" =>
        /\ cursor # "open"
        /\ (queries # <<>> => cursor = "closed")
        /\ (queries = <<>> => cursor = NoCursor)

\* get_filtered_addresses raised out of a statement, its cursor closed
C26_Witness ==
    /\ returned.method = "get_filtered_addresses"
    /\ returned.raised
    /\ queries # <<>>
    /\ cursor = "closed"

====
